---- MODULE Spec2Model ----
(***************************************************************************)
(* A model of the array engine of uiua: the monadic shape algorithms of    *)
(* src/algorithm/monadic.rs and the pervasion engines of                   *)
(* src/algorithm/pervade.rs.                                               *)
(*                                                                         *)
(* An array is a record [shape, data]: shape a sequence of dimension sizes *)
(* (outermost first), data the flat row-major buffer.  Rust indices are    *)
(* 0-based; the sequences here are 1-based, so data[i] of the source is    *)
(* data[i + 1] here.  A call ends "ok" (a value is returned), "err" (an    *)
(* Err value is returned) or "panic" (the thread aborts: an index out of   *)
(* bounds, a division by zero, a zero chunk size, an arithmetic overflow   *)
(* under overflow checks).                                                 *)
(***************************************************************************)
EXTENDS Integers, Sequences, FiniteSets, TLC

VARIABLES
    arr,      \* the array (or value) the next operation is applied to
    prev,     \* the array the last operation was applied to
    op,       \* the name of the last operation
    status,   \* how the last operation ended: "ok", "err" or "panic"
    error,    \* which error the last operation returned, "none" if none
    orig,     \* the value (pervasion machine: the operands) the machine started from
    a,        \* pervasion machine: the caller's first operand
    b,        \* pervasion machine: the caller's second operand
    env,      \* pervasion machine: the fill values and the kernel of the call
    c,        \* pervasion machine: the generic engine's output buffer
    calls,    \* pervasion machine: the element pairs passed to the kernel, in order
    named     \* pervasion machine: the shapes the error message names

vars == <<arr, prev, op, status, error, orig, a, b, env, c, calls, named>>

(***************************************************************************)
(* Bounds of the model.                                                    *)
(***************************************************************************)
MaxRank == 3
MaxDim == 3
MaxLen == 6
MaxVal == 1
MaxBitsLen == 2
MaxNat == 3
MaxPervWeight == 6

(***************************************************************************)
(* Helpers over sequences.                                                 *)
(***************************************************************************)
Min(x, y) == IF x <= y THEN x ELSE y

Max(x, y) == IF x >= y THEN x ELSE y

RECURSIVE Product(_)
Product(s) == IF s = <<>> THEN 1 ELSE Head(s) * Product(Tail(s))

\* the largest element of a sequence of naturals, 0 when it is empty
RECURSIVE MaxOf(_)
MaxOf(s) == IF s = <<>> THEN 0 ELSE Max(Head(s), MaxOf(Tail(s)))

\* the row-major offset of a multi-index
RECURSIVE FlatIndex(_, _)
FlatIndex(s, I) ==
    IF s = <<>> THEN 0
    ELSE I[1] * Product(Tail(s)) + FlatIndex(Tail(s), Tail(I))

\* slice[from..to) of the source, 0-based and half-open
Slice(s, from, to) == SubSeq(s, from + 1, to)

Elem == 0..MaxVal

Shapes ==
    { s \in UNION { [1..r -> 0..MaxDim] : r \in 0..MaxRank } : Product(s) <= MaxLen }

\* every array that satisfies the data-length invariant, within the bounds
Arrays ==
    UNION { { [shape |-> s, data |-> d] : d \in [1..Product(s) -> Elem] } : s \in Shapes }

(***************************************************************************)
(* Shape/Row view                                                          *)
(***************************************************************************)
rank(x) == Len(x.shape)

flat_len(x) == Len(x.data)

row_len(x) == IF x.shape = <<>> THEN 1 ELSE Product(Tail(x.shape))

row_count(x) == IF x.shape = <<>> THEN 1 ELSE x.shape[1]

\* shape.rotate_left(1) and shape.rotate_right(1)
rotate_left(s) == IF s = <<>> THEN s ELSE Tail(s) \o <<Head(s)>>

rotate_right(s) == IF s = <<>> THEN s ELSE <<s[Len(s)]>> \o SubSeq(s, 1, Len(s) - 1)

Arr(s, d) == [shape |-> s, data |-> d]

\* the outcome of a call: an array, an error value, or an abort
Ok(x) == [status |-> "ok", error |-> "none", shape |-> x.shape, data |-> x.data]

Err(e) == [status |-> "err", error |-> e, shape |-> <<>>, data |-> <<>>]

Panic == [status |-> "panic", error |-> "none", shape |-> <<>>, data |-> <<>>]

(***************************************************************************)
(* Deshape                                                                 *)
(***************************************************************************)
deshape(x) == Ok(Arr(<<flat_len(x)>>, x.data))

(***************************************************************************)
(* First / Last                                                            *)
(***************************************************************************)
\* Vec::truncate(n): keeps the first n elements, a no-op when n >= len
truncate(d, n) == SubSeq(d, 1, Min(n, Len(d)))

first(x) ==
    IF x.shape = <<>> THEN Err("scalar")
    ELSE IF x.shape = <<0>> THEN Err("empty")
    ELSE Ok(Arr(Tail(x.shape), truncate(x.data, row_len(x))))

\* data.len() - row_len is an unsigned subtraction: when it underflows the
\* call aborts under overflow checks and wraps to a huge skip count, which
\* skips every element, without them.  `checks` is the build's choice.
last(x, checks) ==
    IF x.shape = <<>> THEN Err("scalar")
    ELSE IF x.shape = <<0>> THEN Err("empty")
    ELSE IF Len(x.data) < row_len(x)
         THEN IF checks THEN Panic ELSE Ok(Arr(Tail(x.shape), <<>>))
         ELSE Ok(Arr(Tail(x.shape),
                     Slice(x.data, Len(x.data) - row_len(x), Len(x.data))))

(***************************************************************************)
(* Reverse                                                                 *)
(***************************************************************************)
\* ptr::swap_nonoverlapping(&data[left], &data[right], n)
swap_nonoverlapping(d, left, right, n) ==
    [k \in 1..Len(d) |->
        IF left < k /\ k <= left + n THEN d[k - left + right]
        ELSE IF right < k /\ k <= right + n THEN d[k - right + left]
        ELSE d[k]]

\* a reverse whose loop runs over every row instead of the first half: each
\* pair is swapped twice
RECURSIVE reverse_loop_full(_, _, _, _)
reverse_loop_full(d, i, rc, rl) ==
    IF i >= rc THEN d
    ELSE reverse_loop_full(swap_nonoverlapping(d, i * rl, (rc - i - 1) * rl, rl),
                           i + 1, rc, rl)

\* for i in 0..row_count / 2 { swap row i with row row_count - i - 1 }
RECURSIVE reverse_loop(_, _, _, _)
reverse_loop(d, i, rc, rl) ==
    IF i >= rc \div 2 THEN d
    ELSE reverse_loop(swap_nonoverlapping(d, i * rl, (rc - i - 1) * rl, rl),
                      i + 1, rc, rl)

\* A buffer shorter than the shape promises makes &mut data[right] fail its
\* bounds check (or the raw swap run past the buffer): an abort.
reverse(x) ==
    IF x.shape = <<>> \/ flat_len(x) = 0 THEN Ok(x)
    ELSE IF row_count(x) >= 2 /\ row_count(x) * row_len(x) > Len(x.data) THEN Panic
    ELSE Ok(Arr(x.shape, reverse_loop(x.data, 0, row_count(x), row_len(x))))

(***************************************************************************)
(* Transpose / inverse transpose                                           *)
(***************************************************************************)
\* a transpose with its two loops exchanged: the shape is rotated and the
\* data copied in its old order
transpose_loops_swapped(x) ==
    IF rank(x) < 2 THEN Ok(x)
    ELSE IF x.shape[1] = 0 THEN Ok(Arr(rotate_left(x.shape), x.data))
    ELSE IF row_len(x) * row_count(x) > Len(x.data) THEN Panic
    ELSE Ok(Arr(rotate_left(x.shape), x.data))

\* for j in 0..row_len { for i in 0..row_count { push data[i * row_len + j] } }
transpose(x) ==
    IF rank(x) < 2 THEN Ok(x)
    ELSE IF x.shape[1] = 0 THEN Ok(Arr(rotate_left(x.shape), x.data))
    ELSE LET rl == row_len(x)
             rc == row_count(x)
         IN  IF rl * rc > Len(x.data) THEN Panic
             ELSE Ok(Arr(rotate_left(x.shape),
                         [k \in 1..(rl * rc) |->
                             x.data[((k - 1) % rc) * rl + ((k - 1) \div rc) + 1]]))

\* for j in 0..col_len { for i in 0..col_count { push data[i * col_len + j] } }
inv_transpose(x) ==
    IF rank(x) < 2 THEN Ok(x)
    ELSE IF x.shape[1] = 0 THEN Ok(Arr(rotate_right(x.shape), x.data))
    ELSE LET col_len == x.shape[Len(x.shape)]
             col_count == Product(SubSeq(x.shape, 1, Len(x.shape) - 1))
         IN  IF col_len * col_count > Len(x.data) THEN Panic
             ELSE Ok(Arr(rotate_right(x.shape),
                         [k \in 1..(col_len * col_count) |->
                             x.data[((k - 1) % col_count) * col_len
                                    + ((k - 1) \div col_count) + 1]]))

(***************************************************************************)
(* Deduplicate                                                             *)
(***************************************************************************)
\* Array::row(i): the i-th row (0-based) as an array of its own
row(x, i) ==
    Arr(Tail(x.shape), Slice(x.data, i * row_len(x), (i + 1) * row_len(x)))

\* Array::rows(): one row per index of the leading axis
rows(x) == [i \in 1..row_count(x) |-> row(x, i - 1)]

\* a deduplication that compares a row with the row before it only
RECURSIVE deduplicate_loop_adjacent(_, _, _, _, _)
deduplicate_loop_adjacent(rs, i, seen, deduped, new_len) ==
    IF i > Len(rs) THEN [data |-> deduped, new_len |-> new_len]
    ELSE IF i > 1 /\ rs[i] = rs[i - 1]
         THEN deduplicate_loop_adjacent(rs, i + 1, seen, deduped, new_len)
         ELSE deduplicate_loop_adjacent(rs, i + 1, seen \cup {rs[i]},
                                        deduped \o rs[i].data, new_len + 1)

\* for row in rows { if seen.insert(row) { deduped.extend(row.data); new_len += 1 } }
RECURSIVE deduplicate_loop(_, _, _, _, _)
deduplicate_loop(rs, i, seen, deduped, new_len) ==
    IF i > Len(rs) THEN [data |-> deduped, new_len |-> new_len]
    ELSE IF rs[i] \in seen
         THEN deduplicate_loop(rs, i + 1, seen, deduped, new_len)
         ELSE deduplicate_loop(rs, i + 1, seen \cup {rs[i]},
                               deduped \o rs[i].data, new_len + 1)

deduplicate(x) ==
    IF rank(x) = 0 THEN Ok(x)
    ELSE IF row_count(x) * row_len(x) > Len(x.data) THEN Panic
    ELSE LET r == deduplicate_loop(rows(x), 1, {}, <<>>, 0)
         IN  Ok(Arr(<<r.new_len>> \o Tail(x.shape), r.data))

(***************************************************************************)
(* Rise / Fall                                                             *)
(***************************************************************************)
\* Array::row_slice(i): the elements of the i-th row (0-based)
row_slice(x, i) == Slice(x.data, i * row_len(x), (i + 1) * row_len(x))

\* ArrayCmp::array_cmp on elements: Less, Equal, Greater as -1, 0, 1
array_cmp(p, q) == IF p < q THEN -1 ELSE IF p > q THEN 1 ELSE 0

\* .zip().map(cmp).find(|x| x != Equal).unwrap_or(Equal) from position k on
RECURSIVE find_unequal(_, _, _)
find_unequal(s, t, k) ==
    IF k > Min(Len(s), Len(t)) THEN 0
    ELSE IF array_cmp(s[k], t[k]) # 0 THEN array_cmp(s[k], t[k])
    ELSE find_unequal(s, t, k + 1)

\* a comparator that looks at the first element of each row only
rise_cmp_first(x, i, j) ==
    IF row_len(x) = 0 THEN 0
    ELSE array_cmp(row_slice(x, i)[1], row_slice(x, j)[1])

\* the closure of rise: a.array_cmp(b) over the zipped rows
rise_cmp(x, i, j) == find_unequal(row_slice(x, i), row_slice(x, j), 1)

\* the closure of fall: b.array_cmp(a) over the zipped rows
fall_cmp(x, i, j) == find_unequal(row_slice(x, j), row_slice(x, i), 1)

\* par_sort_by, a stable sort: an index comes after the indices that compare
\* less and after the earlier indices that compare equal.  cmp[i][j] is what
\* the comparator closure returns for the indices i and j.
par_sort_by(n, cmp) ==
    LET before(i) == { j \in 0..(n - 1) : cmp[j][i] < 0 \/ (cmp[j][i] = 0 /\ j < i) }
    IN  [k \in 1..n |-> CHOOSE i \in 0..(n - 1) : Cardinality(before(i)) = k - 1]

\* Value::from_iter over the indices: a list of numbers
from_iter(v) == Arr(<<Len(v)>>, v)

rise(x) ==
    IF rank(x) = 0 THEN Err("scalar")
    ELSE IF flat_len(x) = 0 THEN Ok(from_iter(<<>>))
    ELSE LET n == row_count(x)
             cmp == [i \in 0..(n - 1) |-> [j \in 0..(n - 1) |-> rise_cmp(x, i, j)]]
         IN  Ok(from_iter(par_sort_by(n, cmp)))

fall(x) ==
    IF rank(x) = 0 THEN Err("scalar")
    ELSE IF flat_len(x) = 0 THEN Ok(from_iter(<<>>))
    ELSE LET n == row_count(x)
             cmp == [i \in 0..(n - 1) |-> [j \in 0..(n - 1) |-> fall_cmp(x, i, j)]]
         IN  Ok(from_iter(par_sort_by(n, cmp)))

(***************************************************************************)
(* Classify                                                                *)
(***************************************************************************)
\* the position (0-based) of a key among the keys of the map, -1 if absent
RECURSIVE position(_, _, _)
position(keys, key, k) ==
    IF k > Len(keys) THEN -1
    ELSE IF keys[k] = key THEN k - 1
    ELSE position(keys, key, k + 1)

\* a classification that gives a new row its own index as its class
RECURSIVE classify_loop_by_index(_, _, _, _)
classify_loop_by_index(rs, i, classes, classified) ==
    IF i > Len(rs) THEN classified
    ELSE LET seen == position(classes.keys, rs[i], 1)
         IN  IF seen >= 0
             THEN classify_loop_by_index(rs, i + 1, classes,
                                         Append(classified, classes.vals[seen + 1]))
             ELSE classify_loop_by_index(rs, i + 1,
                      [keys |-> Append(classes.keys, rs[i]),
                       vals |-> Append(classes.vals, i - 1)],
                      Append(classified, i - 1))

\* for row in rows { new_class = classes.len();
\*                   classified.push(*classes.entry(row).or_insert(new_class)) }
\* The map is held as its keys in insertion order and their values.
RECURSIVE classify_loop(_, _, _, _)
classify_loop(rs, i, classes, classified) ==
    IF i > Len(rs) THEN classified
    ELSE LET new_class == Len(classes.keys)
             seen == position(classes.keys, rs[i], 1)
         IN  IF seen >= 0
             THEN classify_loop(rs, i + 1, classes,
                                Append(classified, classes.vals[seen + 1]))
             ELSE classify_loop(rs, i + 1,
                      [keys |-> Append(classes.keys, rs[i]),
                       vals |-> Append(classes.vals, new_class)],
                      Append(classified, new_class))

classify(x) ==
    IF rank(x) = 0 THEN Err("scalar")
    ELSE IF row_count(x) * row_len(x) > Len(x.data) THEN Panic
    ELSE Ok(from_iter(classify_loop(rows(x), 1, [keys |-> <<>>, vals |-> <<>>], <<>>)))

(***************************************************************************)
(* The monadic machine: an array is constructed, then any sequence of the  *)
(* in-place and consuming operations is applied to it.  An operation that  *)
(* returns an error or aborts leaves no array to go on with.               *)
(***************************************************************************)
NoArray == Arr(<<>>, <<>>)

\* no fill value for either element type, no kernel
NoFill == [some |-> FALSE, v |-> 0]

NoEnv == [fill_a |-> NoFill, fill_b |-> NoFill, f |-> "none"]

Apply(name, r) ==
    /\ op' = name
    /\ prev' = arr
    /\ status' = r.status
    /\ error' = r.error
    /\ arr' = IF r.status = "ok" THEN Arr(r.shape, r.data) ELSE NoArray
    /\ UNCHANGED <<orig, a, b, env, c, calls, named>>

Deshape == status = "ok" /\ Apply("deshape", deshape(arr))

First == status = "ok" /\ Apply("first", first(arr))

Last == status = "ok" /\ \E checks \in BOOLEAN : Apply("last", last(arr, checks))

Reverse == status = "ok" /\ Apply("reverse", reverse(arr))

Transpose == status = "ok" /\ Apply("transpose", transpose(arr))

InvTranspose == status = "ok" /\ Apply("inv_transpose", inv_transpose(arr))

Deduplicate == status = "ok" /\ Apply("deduplicate", deduplicate(arr))

Rise == status = "ok" /\ Apply("rise", rise(arr))

Fall == status = "ok" /\ Apply("fall", fall(arr))

Classify == status = "ok" /\ Apply("classify", classify(arr))

\* the list [1, 2, 1, 3, 2], whose values repeat out of order
Scenarios == { Arr(<<5>>, <<1, 2, 1, 3, 2>>) }

InitMonadic ==
    /\ arr \in Arrays \cup Scenarios
    /\ prev = arr
    /\ op = "new"
    /\ status = "ok"
    /\ error = "none"
    /\ orig = NoArray
    /\ a = NoArray
    /\ b = NoArray
    /\ env = NoEnv
    /\ c = <<>>
    /\ calls = <<>>
    /\ named = <<>>

NextMonadic ==
    \/ Deshape
    \/ First
    \/ Last
    \/ Reverse
    \/ Transpose
    \/ InvTranspose
    \/ Deduplicate
    \/ Rise
    \/ Fall
    \/ Classify

SpecMonadic == InitMonadic /\ [][NextMonadic]_vars

(***************************************************************************)
(* Numbers.  An f64 is modelled by twice its value, so that the halves     *)
(* (0.5, 1.5, -0.5) are values of the model and fract() can tell them from *)
(* the integral ones; a u8 and a u128 are the integers they hold.          *)
(***************************************************************************)
\* the f64 that holds the integer k (f64::from, `as f64`)
f64_from(k) == 2 * k

\* n.fract() != 0.0
fract_nonzero(n) == n % 2 # 0

\* `n as u128`: truncates toward zero and saturates, a negative n gives 0
as_u128(n) == IF n < 0 THEN 0 ELSE n \div 2

\* `n as u8`: truncates toward zero and saturates at 0 and 255
as_u8(n) == IF n < 0 THEN 0 ELSE Min(n \div 2, 255)

RECURSIVE Pow2(_)
Pow2(i) == IF i = 0 THEN 1 ELSE 2 * Pow2(i - 1)

\* the f64 elements of the bits machine: the naturals up to MaxNat, the
\* negative integers -1 and -2, 256, and the non-integral 0.5, 1.5 and -0.5
NumElems ==
    { f64_from(k) : k \in (-2..MaxNat) \cup {256} } \cup {1, 3, -1}

\* the u8 elements of the bits machine
ByteElems == {0, 1, 2, 255}

BitShapes == { s \in Shapes : Product(s) <= MaxBitsLen }

Val(k, s, d) == [kind |-> k, shape |-> s, data |-> d]

Values ==
    UNION { { Val("Num", s, d) : d \in [1..Product(s) -> NumElems] }
            \cup { Val("Byte", s, d) : d \in [1..Product(s) -> ByteElems] }
            : s \in BitShapes }

(***************************************************************************)
(* Bit pack / unpack                                                       *)
(***************************************************************************)
\* Array::validate_shape: the data length must be the product of the shape
validate_shape(x) == Len(x.data) = Product(x.shape)

\* a loop that stops at max = 1 and leaves the leading bit uncounted
RECURSIVE max_bits_loop_short(_, _)
max_bits_loop_short(max, max_bits) ==
    IF max <= 1 THEN max_bits ELSE max_bits_loop_short(max \div 2, max_bits + 1)

\* while max != 0 { max_bits += 1; max >>= 1 }
RECURSIVE max_bits_loop(_, _)
max_bits_loop(max, max_bits) ==
    IF max = 0 THEN max_bits ELSE max_bits_loop(max \div 2, max_bits + 1)

\* Array<f64>::bits
bits(x) ==
    IF \E i \in 1..Len(x.data) : fract_nonzero(x.data[i]) THEN Err("naturals")
    ELSE LET nats == [i \in 1..Len(x.data) |-> as_u128(x.data[i])]
         IN  IF nats = <<>> THEN Ok(Arr(x.shape \o <<0>>, <<>>))
             ELSE LET max_bits == max_bits_loop(MaxOf(nats), 0)
                      \* for n in nats { for i in 0..max_bits { n & (1 << i) != 0 } }
                      new_data ==
                          [k \in 1..(Len(nats) * max_bits) |->
                              IF (nats[((k - 1) \div max_bits) + 1]
                                     \div Pow2((k - 1) % max_bits)) % 2 = 1
                              THEN 1 ELSE 0]
                      r == Arr(x.shape \o <<max_bits>>, new_data)
                  IN  IF validate_shape(r) THEN Ok(r) ELSE Panic

\* for (i, b) in bits.iter().enumerate() { if *b { n |= 1 << i } }
RECURSIVE from_bits(_, _, _)
from_bits(bs, i, n) ==
    IF i >= Len(bs) THEN n
    ELSE from_bits(bs, i + 1, IF bs[i + 1] # 0 THEN n + Pow2(i) ELSE n)

\* Array<u8>::inverse_bits
inverse_bits(x) ==
    IF \E i \in 1..Len(x.data) : x.data[i] > 1 THEN Err("booleans")
    ELSE IF rank(x) = 0
         THEN IF x.data = <<>> THEN Panic
              ELSE Ok(Arr(<<>>, <<f64_from(x.data[1])>>))
    ELSE LET shape == SubSeq(x.shape, 1, Len(x.shape) - 1)
             bit_string_len == x.shape[Len(x.shape)]
         IN  \* data.len() / bit_string_len and chunks_exact(bit_string_len)
             IF bit_string_len = 0 THEN Panic
             ELSE LET new_data ==
                          [k \in 1..(Len(x.data) \div bit_string_len) |->
                              f64_from(from_bits(
                                  Slice(x.data, (k - 1) * bit_string_len,
                                        k * bit_string_len), 0, 0))]
                      r == Arr(shape, new_data)
                  IN  IF validate_shape(r) THEN Ok(r) ELSE Panic

\* Array::convert_ref / convert_ref_with: the same shape, each element converted
convert_to_f64(x) == Arr(x.shape, [i \in 1..Len(x.data) |-> f64_from(x.data[i])])

convert_to_u8(x) == Arr(x.shape, [i \in 1..Len(x.data) |-> as_u8(x.data[i])])

Value_bits(v) ==
    IF v.kind = "Byte" THEN bits(convert_to_f64(v))
    ELSE IF v.kind = "Num" THEN bits(v)
    ELSE Err("type")

Value_inverse_bits(v) ==
    IF v.kind = "Byte" THEN inverse_bits(v)
    ELSE IF v.kind = "Num" THEN inverse_bits(convert_to_u8(v))
    ELSE Err("type")

(***************************************************************************)
(* The bits machine: a numeric or byte value is constructed; bits is       *)
(* called on it and inverse_bits on the bit array it returned, or          *)
(* inverse_bits is called on the value itself.                             *)
(***************************************************************************)
NoValue == Val("None", <<>>, <<>>)

ApplyBits(name, kind, r) ==
    /\ op' = name
    /\ prev' = arr
    /\ status' = r.status
    /\ error' = r.error
    /\ arr' = IF r.status = "ok" THEN Val(kind, r.shape, r.data) ELSE NoValue
    /\ UNCHANGED <<orig, a, b, env, c, calls, named>>

Bits == op = "new" /\ ApplyBits("bits", "Byte", Value_bits(arr))

InverseBits ==
    op = "bits" /\ status = "ok" /\ ApplyBits("round_trip", "Num", inverse_bits(arr))

ValueInverseBits ==
    op = "new" /\ ApplyBits("inverse_bits", "Num", Value_inverse_bits(arr))

\* the spec's scenario 3, bits([5])
BitScenarios == { Val("Num", <<1>>, <<f64_from(5)>>) }

InitBits ==
    /\ arr \in Values \cup BitScenarios
    /\ prev = arr
    /\ orig = arr
    /\ op = "new"
    /\ status = "ok"
    /\ error = "none"
    /\ a = NoArray
    /\ b = NoArray
    /\ env = NoEnv
    /\ c = <<>>
    /\ calls = <<>>
    /\ named = <<>>

NextBits ==
    \/ Bits
    \/ InverseBits
    \/ ValueInverseBits

SpecBits == InitBits /\ [][NextBits]_vars

(***************************************************************************)
(* Range                                                                   *)
(***************************************************************************)
\* the width of usize on the 64-bit targets
usize_BITS == 64

\* usize::overflowing_mul: the product overflows when it needs more than
\* usize_BITS bits
overflowing_mul(x, y) ==
    [v |-> x * y, overflow |-> max_bits_loop(x * y, 0) > usize_BITS]

\* for &item in shape { (new, overflow) = len.overflowing_mul(item); .. }
RECURSIVE range_len(_, _, _)
range_len(shape, k, len) ==
    IF k > Len(shape) THEN [overflow |-> FALSE, len |-> len]
    ELSE LET m == overflowing_mul(len, shape[k])
         IN  IF m.overflow THEN [overflow |-> TRUE, len |-> len]
             ELSE range_len(shape, k + 1, m.v)

\* an odometer whose first axis runs fastest
RECURSIVE advance_first_fastest(_, _, _)
advance_first_fastest(shape, curr, i) ==
    LET j == Len(shape) - 1 - i
        bumped == [curr EXCEPT ![j + 1] = curr[j + 1] + 1]
    IN  IF bumped[j + 1] = shape[j + 1]
        THEN LET reset == [bumped EXCEPT ![j + 1] = 0]
             IN  IF i = 0 THEN [done |-> TRUE, curr |-> reset]
                 ELSE advance_first_fastest(shape, reset, i - 1)
        ELSE [done |-> FALSE, curr |-> bumped]

\* the inner loop: curr[i] += 1; on reaching shape[i] it is reset and the
\* axis before it is advanced; the range is complete when axis 0 is reset
RECURSIVE advance(_, _, _)
advance(shape, curr, i) ==
    LET bumped == [curr EXCEPT ![i + 1] = curr[i + 1] + 1]
    IN  IF bumped[i + 1] = shape[i + 1]
        THEN LET reset == [bumped EXCEPT ![i + 1] = 0]
             IN  IF i = 0 THEN [done |-> TRUE, curr |-> reset]
                 ELSE advance(shape, reset, i - 1)
        ELSE [done |-> FALSE, curr |-> bumped]

\* the outer loop: push the components of curr, then advance it
RECURSIVE range_loop(_, _, _)
range_loop(shape, curr, data) ==
    LET pushed == data \o [k \in 1..Len(curr) |-> f64_from(curr[k])]
        next == advance(shape, curr, Len(shape) - 1)
    IN  IF next.done THEN pushed ELSE range_loop(shape, next.curr, pushed)

\* fn range: the data of the range of a shape
range(shape) ==
    IF shape = <<>> THEN [status |-> "ok", error |-> "none", data |-> <<f64_from(0)>>]
    ELSE IF \E k \in 1..Len(shape) : shape[k] = 0
         THEN [status |-> "ok", error |-> "none", data |-> <<>>]
    ELSE IF range_len(shape, 1, Len(shape)).overflow
         THEN [status |-> "err", error |-> "too_large", data |-> <<>>]
    ELSE [status |-> "ok", error |-> "none",
          data |-> range_loop(shape, [k \in 1..Len(shape) |-> 0], <<>>)]

\* Value::as_naturals: a natural number or a list of natural numbers
as_naturals(v) ==
    IF Len(v.shape) > 1 THEN [ok |-> FALSE, v |-> <<>>]
    ELSE IF \E i \in 1..Len(v.data) : fract_nonzero(v.data[i]) \/ v.data[i] < 0
         THEN [ok |-> FALSE, v |-> <<>>]
    ELSE [ok |-> TRUE, v |-> [i \in 1..Len(v.data) |-> v.data[i] \div 2]]

Value_range(v) ==
    LET n == as_naturals(v)
    IN  IF ~n.ok THEN Err("naturals")
        ELSE LET shape == n.v
                 r == range(shape)
             IN  IF r.status # "ok" THEN Err(r.error)
                 ELSE LET pushed == IF Len(shape) > 1 THEN Append(shape, Len(shape))
                                    ELSE shape
                          res == Arr(pushed, r.data)
                      IN  IF validate_shape(res) THEN Ok(res) ELSE Panic

(***************************************************************************)
(* The range machine: a value is constructed and range is called on it.    *)
(***************************************************************************)
\* the lists of at most MaxRank naturals up to MaxDim, the single naturals,
\* and values that are no shape: a half, a negative number, a matrix
RangeInputs ==
    { Val("Num", <<r>>, [i \in 1..r |-> f64_from(s[i])]) :
        <<r, s>> \in UNION { { <<n, t>> : t \in [1..n -> 0..MaxDim] } : n \in 0..MaxRank } }
    \cup { Val("Num", <<>>, <<f64_from(n)>>) : n \in 0..MaxDim }
    \cup { Val("Num", <<>>, <<1>>), Val("Num", <<>>, <<f64_from(-1)>>),
           Val("Num", <<1, 1>>, <<f64_from(1)>>) }

Range == op = "new" /\ ApplyBits("range", "Num", Value_range(arr))

InitRange ==
    /\ arr \in RangeInputs
    /\ prev = arr
    /\ orig = arr
    /\ op = "new"
    /\ status = "ok"
    /\ error = "none"
    /\ a = NoArray
    /\ b = NoArray
    /\ env = NoEnv
    /\ c = <<>>
    /\ calls = <<>>
    /\ named = <<>>

NextRange == Range

SpecRange == InitRange /\ [][NextRange]_vars

(***************************************************************************)
(* Binary pervasion engine                                                 *)
(***************************************************************************)
\* a match that looks at the leading dimension only
shape_prefixes_match_first(x, y) ==
    \A k \in 1..Min(1, Min(Len(x.shape), Len(y.shape))) : x.shape[k] = y.shape[k]

\* Arrayish::shape_prefixes_match: zip stops at the shorter shape
shape_prefixes_match(x, y) ==
    \A k \in 1..Min(Len(x.shape), Len(y.shape)) : x.shape[k] = y.shape[k]

\* slice::chunks(n): consecutive chunks of n elements, a shorter last one
chunks(d, n) ==
    [k \in 1..((Len(d) + n - 1) \div n) |-> Slice(d, (k - 1) * n, Min(k * n, Len(d)))]

\* Arrayish::rows of a (shape, data) view: data.chunks(row_len.max(1))
view_rows(sh, d) == chunks(d, Max(IF sh = <<>> THEN 1 ELSE Product(Tail(sh)), 1))

RECURSIVE Concat(_)
Concat(ss) == IF ss = <<>> THEN <<>> ELSE Head(ss) \o Concat(Tail(ss))

\* The order of slices ([usize] as Ord): lexicographic, a proper prefix first.
RECURSIVE slice_le(_, _)
slice_le(s, t) ==
    IF s = <<>> THEN TRUE
    ELSE IF t = <<>> THEN FALSE
    ELSE IF Head(s) # Head(t) THEN Head(s) < Head(t)
    ELSE slice_le(Tail(s), Tail(t))

\* a result shape that is always the first operand's
slice_max_first(s, t) == s

\* a.shape().max(b.shape()), cmp::max(a_shape, b_shape)
slice_max(s, t) == IF slice_le(s, t) THEN t ELSE s

\* max_shape of two shapes of one rank: the larger size in each dimension
max_shape(s, t) == [k \in 1..Len(s) |-> Max(s[k], t[k])]

\* data_index_to_shape_index: the multi-index of a row-major offset
RECURSIVE Unflatten(_, _)
Unflatten(sh, i) ==
    IF sh = <<>> THEN <<>>
    ELSE LET rl == Product(Tail(sh))
         IN  IF rl = 0 THEN [k \in 1..Len(sh) |-> 0]
             ELSE <<i \div rl>> \o Unflatten(Tail(sh), i % rl)

\* Array::fill_to_shape: leading dimensions of size 1 are added up to the
\* target's rank, then every position of the target outside the array holds
\* the fill value and every position inside it the array's element.
fill_to_shape(x, target, fill) ==
    LET padded == [k \in 1..(Len(target) - Len(x.shape)) |-> 1] \o x.shape
    IN  IF padded = target THEN Arr(padded, x.data)
        ELSE Arr(target,
                 [k \in 1..Product(target) |->
                     LET I == Unflatten(target, k - 1)
                     IN  IF \A d \in 1..Len(target) : I[d] < padded[d]
                         THEN x.data[FlatIndex(padded, I) + 1]
                         ELSE fill])

\* a recursion that zips the two flat buffers whatever the shapes: no
\* broadcasting of a scalar or of a row
bin_pervade_flat_zip(ash, ad, bsh, bd) ==
    [k \in 1..Min(Len(ad), Len(bd)) |-> <<ad[k], bd[k]>>]

\* The element pairs bin_pervade_recursive passes to the kernel, in the order
\* of the calls.
RECURSIVE bin_pervade_recursive(_, _, _, _)
bin_pervade_recursive(ash, ad, bsh, bd) ==
    IF ash = <<>> /\ bsh = <<>> THEN << <<ad[1], bd[1]>> >>
    ELSE IF ash = bsh
         THEN [k \in 1..Min(Len(ad), Len(bd)) |-> <<ad[k], bd[k]>>]
    ELSE IF ash = <<>>
         THEN LET brows == view_rows(bsh, bd)
              IN  Concat([k \in 1..Len(brows) |->
                      bin_pervade_recursive(ash, ad, Tail(bsh), brows[k])])
    ELSE IF bsh = <<>>
         THEN LET arows == view_rows(ash, ad)
              IN  Concat([k \in 1..Len(arows) |->
                      bin_pervade_recursive(Tail(ash), arows[k], bsh, bd)])
    ELSE LET arows == view_rows(ash, ad)
             brows == view_rows(bsh, bd)
         IN  Concat([k \in 1..Min(Len(arows), Len(brows)) |->
                 bin_pervade_recursive(Tail(ash), arows[k], Tail(bsh), brows[k])])

\* PervasiveFn::call.  add and sub are the infallible kernels add::num_num and
\* sub::num_num; "checked" is a fallible kernel of the caller's, which fails
\* with one error on the second operand 2, with another on the first operand
\* 30, and subtracts otherwise.
call(f, x, y) ==
    IF f = "add" THEN [ok |-> TRUE, v |-> y + x, e |-> "none"]
    ELSE IF f = "sub" THEN [ok |-> TRUE, v |-> y - x, e |-> "none"]
    ELSE IF y = 2 THEN [ok |-> FALSE, v |-> 0, e |-> "kernel"]
    ELSE IF x = 30 THEN [ok |-> FALSE, v |-> 0, e |-> "kernel_first"]
    ELSE [ok |-> TRUE, v |-> y - x, e |-> "none"]

\* a loop that goes on after a failed call and reports the failure at its end
RECURSIVE push_calls_all(_, _, _, _)
push_calls_all(f, pairs, k, out) ==
    IF k > Len(pairs)
    THEN LET failed == { i \in 1..Len(pairs) : ~call(f, pairs[i][1], pairs[i][2]).ok }
         IN  IF failed = {} THEN [ok |-> TRUE, e |-> "none", data |-> out, calls |-> pairs]
             ELSE [ok |-> FALSE, e |-> "kernel", data |-> out, calls |-> pairs]
    ELSE push_calls_all(f, pairs, k + 1, Append(out, call(f, pairs[k][1], pairs[k][2]).v))

\* c.push(f.call(a, b, env)?) over the pairs: the first failure returns.
\* `calls` are the pairs the kernel was called on.
RECURSIVE push_calls(_, _, _, _)
push_calls(f, pairs, k, out) ==
    IF k > Len(pairs) THEN [ok |-> TRUE, e |-> "none", data |-> out, calls |-> pairs]
    ELSE LET r == call(f, pairs[k][1], pairs[k][2])
         IN  IF ~r.ok
             THEN [ok |-> FALSE, e |-> r.e, data |-> out, calls |-> SubSeq(pairs, 1, k)]
             ELSE push_calls(f, pairs, k + 1, Append(out, r.v))

\* bin_pervade, "Fill in missing rows": the operand with fewer rows is
\* cloned and filled up to the other's row count, when its type has a fill
fill_rows(x, y, fill) ==
    IF ~shape_prefixes_match(x, y) /\ row_count(x) < row_count(y) /\ fill.some
    THEN fill_to_shape(x, <<row_count(y)>> \o Tail(x.shape), fill.v)
    ELSE x

\* a second pass that repairs operands of unequal rank only
fill_dims_unequal_ranks(x1, y1, fill) ==
    IF shape_prefixes_match(x1, y1) \/ ~fill.some THEN x1
    ELSE IF rank(x1) < rank(y1)
         THEN fill_to_shape(x1, <<row_count(y1)>> \o x1.shape, fill.v)
    ELSE x1

\* bin_pervade, "Fill in missing dimensions", run when the prefixes of x1 and
\* y1 still differ: the operand of lower rank gets a new leading dimension,
\* operands of one rank are filled to max_shape
fill_dims(x1, y1, fill) ==
    IF shape_prefixes_match(x1, y1) \/ ~fill.some THEN x1
    ELSE IF rank(x1) < rank(y1)
         THEN fill_to_shape(x1, <<row_count(y1)>> \o x1.shape, fill.v)
    ELSE IF rank(x1) > rank(y1) THEN x1
    ELSE IF x1.shape # max_shape(x1.shape, y1.shape)
         THEN fill_to_shape(x1, max_shape(x1.shape, y1.shape), fill.v)
    ELSE x1

\* The arrays bin_pervade can reach: the caller's two operands and its two
\* locals reshaped_a and reshaped_b; `a` and `b` name the array each of the
\* function's references points to.
Borrowed(x, y) ==
    [caller_a |-> x, caller_b |-> y, reshaped_a |-> NoArray, reshaped_b |-> NoArray,
     a |-> "caller_a", b |-> "caller_b"]

\* a repair that writes the filled array over the array the reference points to
repair_in_place(m, ref, local, filled) ==
    IF filled = m[m[ref]] THEN m
    ELSE [m EXCEPT ![m[ref]] = filled]

\* reshaped = a.clone(); reshaped.fill_to_shape(..); a = &reshaped: the filled
\* array is the local, and the reference is moved to it
repair(m, ref, local, filled) ==
    IF filled = m[m[ref]] THEN m
    ELSE [m EXCEPT ![local] = filled, ![ref] = local]

bin_pervade(x, y, e) ==
    LET m0 == Borrowed(x, y)
        x1 == fill_rows(x, y, e.fill_a)
        y1 == fill_rows(y, x, e.fill_b)
        m1 == repair(repair(m0, "a", "reshaped_a", x1), "b", "reshaped_b", y1)
        x2 == fill_dims(m1[m1.a], m1[m1.b], e.fill_a)
        y2 == fill_dims(m1[m1.b], m1[m1.a], e.fill_b)
        m2 == repair(repair(m1, "a", "reshaped_a", x2), "b", "reshaped_b", y2)
        xr == m2[m2.a]
        yr == m2[m2.b]
        caller == [caller_a |-> m2.caller_a, caller_b |-> m2.caller_b]
    IN  IF ~shape_prefixes_match(xr, yr)
        THEN [status |-> "err", error |-> "shape_mismatch_fill", shape |-> <<>>,
              data |-> <<>>, calls |-> <<>>, named |-> <<xr.shape, yr.shape>>,
              caller |-> caller]
        ELSE LET shape == slice_max(xr.shape, yr.shape)
                 r == push_calls(e.f,
                          bin_pervade_recursive(xr.shape, xr.data, yr.shape, yr.data),
                          1, <<>>)
             IN  [status |-> IF r.ok THEN "ok" ELSE "err",
                  error |-> r.e,
                  shape |-> IF r.ok THEN shape ELSE <<>>,
                  data |-> IF r.ok THEN r.data ELSE <<>>,
                  calls |-> r.calls,
                  named |-> <<>>,
                  caller |-> caller]

(***************************************************************************)
(* Generic pervasion engine.  A slot of the output buffer is a record      *)
(* [v, w]: the value it holds and the number of times it was written       *)
(* (C::default() is v = 0, w = 0).  An input is the sequence of its items: *)
(* a Vec, a slice, or an Option as a sequence of at most one item.         *)
(***************************************************************************)
DefaultSlot == [v |-> 0, w |-> 0]

\* slice::chunks_exact(n), n > 0: the whole chunks only
chunks_exact(d, n) == [k \in 1..(Len(d) \div n) |-> Slice(d, (k - 1) * n, k * n)]

\* a write of every chunk to the start of the buffer
splice_at_start(cs, at, part) ==
    [k \in 1..Len(cs) |-> IF k <= Len(part) THEN part[k] ELSE cs[k]]

\* cs with the slots from offset `at` on replaced by those of part
splice(cs, at, part) ==
    [k \in 1..Len(cs) |->
        IF at < k /\ k <= at + Len(part) THEN part[k - at] ELSE cs[k]]

\* for ((a, b), c) in pairs.zip(c) { *c = f(a, b, env)?; }
RECURSIVE generic_zip(_, _, _, _)
generic_zip(f, pairs, cs, k) ==
    IF k > Min(Len(pairs), Len(cs)) THEN [status |-> "ok", error |-> "none", named |-> <<>>, c |-> cs]
    ELSE LET r == call(f, pairs[k][1], pairs[k][2])
         IN  IF ~r.ok THEN [status |-> "err", error |-> r.e, named |-> <<>>, c |-> cs]
             ELSE generic_zip(f, pairs,
                              [cs EXCEPT ![k] = [v |-> r.v, w |-> cs[k].w + 1]],
                              k + 1)

RECURSIVE bin_pervade_recursive_generic(_, _, _, _, _, _)
RECURSIVE generic_chunks(_, _, _, _, _, _, _, _)

\* for ((a, b), c) in as.zip(bs).zip(c.chunks_exact_mut(n)) { recurse(..)?; }
generic_chunks(ash, as, bsh, bs, cs, n, f, k) ==
    IF k > Min(Min(Len(as), Len(bs)), Len(cs) \div n) THEN [status |-> "ok", error |-> "none", named |-> <<>>, c |-> cs]
    ELSE LET r == bin_pervade_recursive_generic(ash, as[k], bsh, bs[k],
                                                Slice(cs, (k - 1) * n, k * n), f)
             cs2 == splice(cs, (k - 1) * n, r.c)
         IN  IF r.status # "ok"
             THEN [status |-> r.status, error |-> r.error, named |-> r.named, c |-> cs2]
             ELSE generic_chunks(ash, as, bsh, bs, cs2, n, f, k + 1)

\* the items of an input, each as a Some(item) input of its own
items(d) == [k \in 1..Len(d) |-> <<d[k]>>]

bin_pervade_recursive_generic(ash, ad, bsh, bd, cs, f) ==
    IF ash = bsh
    THEN generic_zip(f, [k \in 1..Min(Len(ad), Len(bd)) |-> <<ad[k], bd[k]>>], cs, 1)
    ELSE IF bsh = <<>>
    THEN \* b.only() unwraps the first item of b
         IF Min(Len(ad), Len(cs)) > 0 /\ bd = <<>> THEN [status |-> "panic", error |-> "none", named |-> <<>>, c |-> cs]
         ELSE generic_zip(f, [k \in 1..Len(ad) |-> <<ad[k], bd[1]>>], cs, 1)
    ELSE IF ash = <<>>
    THEN IF Min(Len(bd), Len(cs)) > 0 /\ ad = <<>> THEN [status |-> "panic", error |-> "none", named |-> <<>>, c |-> cs]
         ELSE generic_zip(f, [k \in 1..Len(bd) |-> <<ad[1], bd[k]>>], cs, 1)
    ELSE LET a_cells == ash[1]
             b_cells == bsh[1]
         IN  IF a_cells # b_cells
             THEN [status |-> "err", error |-> "shape_mismatch", named |-> <<ash, bsh>>, c |-> cs]
             \* a.len() / a_cells and b.len() / b_cells
             ELSE IF a_cells = 0 \/ b_cells = 0 THEN [status |-> "panic", error |-> "none", named |-> <<>>, c |-> cs]
             ELSE LET a_chunk_size == Len(ad) \div a_cells
                      b_chunk_size == Len(bd) \div b_cells
                  IN  IF Len(ash) = 1 /\ Len(bsh) = 1
                      THEN generic_zip(f,
                               [k \in 1..Min(Len(ad), Len(bd)) |-> <<ad[k], bd[k]>>],
                               cs, 1)
                      ELSE IF Len(ash) = 1
                      THEN \* b.as_slice().chunks_exact(b_chunk_size)
                           IF b_chunk_size = 0 THEN [status |-> "panic", error |-> "none", named |-> <<>>, c |-> cs]
                           ELSE generic_chunks(Tail(ash), items(ad), Tail(bsh),
                                               chunks_exact(bd, b_chunk_size),
                                               cs, b_chunk_size, f, 1)
                      ELSE IF Len(bsh) = 1
                      THEN IF a_chunk_size = 0 THEN [status |-> "panic", error |-> "none", named |-> <<>>, c |-> cs]
                           ELSE generic_chunks(Tail(ash), chunks_exact(ad, a_chunk_size),
                                               Tail(bsh), items(bd),
                                               cs, a_chunk_size, f, 1)
                      ELSE IF a_chunk_size = 0 \/ b_chunk_size = 0
                           THEN [status |-> "panic", error |-> "none", named |-> <<>>, c |-> cs]
                           ELSE generic_chunks(Tail(ash), chunks_exact(ad, a_chunk_size),
                                               Tail(bsh), chunks_exact(bd, b_chunk_size),
                                               cs, Max(a_chunk_size, b_chunk_size), f, 1)

\* bin_pervade_generic: the buffer is sized to the larger shape and filled with
\* defaults, then written by the recursion; `c` of the result is the buffer
\* as the recursion left it
bin_pervade_generic(a_shape, ad, b_shape, bd, f) ==
    LET c_shape == slice_max(a_shape, b_shape)
        c_len == Product(c_shape)
        r == bin_pervade_recursive_generic(a_shape, ad, b_shape, bd,
                                           [k \in 1..c_len |-> DefaultSlot], f)
    IN  [status |-> r.status,
         error |-> r.error,
         named |-> r.named,
         shape |-> IF r.status = "ok" THEN c_shape ELSE <<>>,
         data |-> IF r.status = "ok" THEN [k \in 1..Len(r.c) |-> r.c[k].v] ELSE <<>>,
         c |-> r.c]

(***************************************************************************)
(* The pervasion machine: the caller holds two arrays and an environment   *)
(* (the fill value of each operand's element type, if any, and the         *)
(* kernel), and calls one of the two engines on them.                      *)
(***************************************************************************)
\* the size of a shape: its rank plus the sum of its dimensions
RECURSIVE Weight(_)
Weight(s) == IF s = <<>> THEN 0 ELSE 1 + Head(s) + Weight(Tail(s))

PervShapes ==
    { s \in UNION { [1..r -> 0..(MaxPervWeight - r)] : r \in 0..MaxPervWeight } :
        Weight(s) <= MaxPervWeight }

\* The engines never read an element, they only hand it to the kernel, so an
\* operand is represented by its shape with elements that name their place:
\* 10, 20, .. in the first operand and 1, 2, .. in the second.
OperandA(s) == Arr(s, [k \in 1..Product(s) |-> 10 * k])

OperandB(s) == Arr(s, [k \in 1..Product(s) |-> k])

Fills == {NoFill, [some |-> TRUE, v |-> 0]}

Kernels == {"add", "sub", "checked"}

Envs == [fill_a : Fills, fill_b : Fills, f : Kernels]

ApplyPervade(name, r, buf) ==
    /\ op' = name
    /\ status' = r.status
    /\ error' = r.error
    /\ named' = r.named
    /\ arr' = IF r.status = "ok" THEN Arr(r.shape, r.data) ELSE NoArray
    /\ c' = buf
    /\ UNCHANGED <<prev, orig, env>>

\* the caller's operands after the call are what the call left of them
BinPervade ==
    /\ op = "new"
    /\ LET r == bin_pervade(a, b, env)
       IN  /\ ApplyPervade("bin_pervade", r, <<>>)
           /\ calls' = r.calls
           /\ a' = r.caller.caller_a
           /\ b' = r.caller.caller_b

\* the inputs are passed by value (slices of the caller's buffers): the
\* engine writes its output buffer only
BinPervadeGeneric ==
    /\ op = "new"
    /\ LET r == bin_pervade_generic(a.shape, a.data, b.shape, b.data, env.f)
       IN  /\ ApplyPervade("bin_pervade_generic", r, r.c)
           /\ UNCHANGED <<calls, a, b>>

InitPervade ==
    /\ \E s \in PervShapes : a = OperandA(s)
    /\ \E s \in PervShapes : b = OperandB(s)
    /\ env \in Envs
    /\ arr = NoArray
    /\ prev = NoArray
    /\ orig = [a |-> a, b |-> b]
    /\ op = "new"
    /\ status = "ok"
    /\ error = "none"
    /\ c = <<>>
    /\ calls = <<>>
    /\ named = <<>>

NextPervade ==
    \/ BinPervade
    \/ BinPervadeGeneric

SpecPervade == InitPervade /\ [][NextPervade]_vars

(***************************************************************************)
(* Scalar kernels.  A scalar is a record [kind, w, v, tag]: a Char holds   *)
(* its code point in v, a Byte its value in v, and a Num the f64           *)
(* w * 2^32 + v / 2 (v counts halves, as f64_from does, and w is nonzero   *)
(* only for numbers of the size of 2^32).  An i64 and a u32 are records    *)
(* [w, r] for w * 2^32 + r with r short of 2^31 in size.  The tag of a     *)
(* result is "fin" for the number the fields give, "quarter_pi" for v      *)
(* quarters of pi, "inf", "neg_inf" and "nan" for the f64 of these names,  *)
(* and "inexact" for an f64 that is none of the numbers of the model.      *)
(***************************************************************************)
\* char::MAX and the surrogate range, which holds no char
CHAR_MAX == 1114111

SURROGATE_MIN == 55296

SURROGATE_MAX == 57343

Scalar(k, w, v) == [kind |-> k, w |-> w, v |-> v, tag |-> "fin"]

Num(v) == Scalar("Num", 0, v)

Char(n) == Scalar("Char", 0, n)

Tagged(t, v) == [kind |-> "Num", w |-> 0, v |-> v, tag |-> t]

\* `a as i64` of an f64: truncates toward zero
f64_as_i64(x) ==
    [w |-> x.w, r |-> IF x.v >= 0 THEN x.v \div 2 ELSE -((-x.v) \div 2)]

\* `b as i64` of a char or a u8
as_i64(x) == [w |-> 0, r |-> x.v]

i64_add(i, j) == [w |-> i.w + j.w, r |-> i.r + j.r]

i64_sub(i, j) == [w |-> i.w - j.w, r |-> i.r - j.r]

\* `as u32` of an i64: the low 32 bits, a negative r wraps to 2^32 + r
as_u32(i) == [w |-> IF i.r < 0 THEN 1 ELSE 0, r |-> i.r]

\* char::from_u32(u).unwrap_or('\0')
from_u32_or_null(u) ==
    IF u.w = 0 /\ u.r <= CHAR_MAX /\ ~(SURROGATE_MIN <= u.r /\ u.r <= SURROGATE_MAX)
    THEN Char(u.r)
    ELSE Char(0)

\* mod add
add_num_char(x, y) == from_u32_or_null(as_u32(i64_add(as_i64(y), f64_as_i64(x))))

add_char_num(x, y) == from_u32_or_null(as_u32(i64_add(f64_as_i64(y), as_i64(x))))

add_byte_char(x, y) == from_u32_or_null(as_u32(i64_add(as_i64(y), as_i64(x))))

add_char_byte(x, y) == from_u32_or_null(as_u32(i64_add(as_i64(y), as_i64(x))))

\* mod sub
\* a subtraction with its operands exchanged
sub_num_num_swapped(x, y) == Num(x.v - y.v)

sub_num_num(x, y) == Num(y.v - x.v)

sub_byte_byte(x, y) == Num(f64_from(y.v) - f64_from(x.v))

sub_byte_num(x, y) == Num(y.v - f64_from(x.v))

sub_num_byte(x, y) == Num(f64_from(y.v) - x.v)

sub_num_char(x, y) == from_u32_or_null(as_u32(i64_sub(as_i64(y), f64_as_i64(x))))

sub_char_char(x, y) == Num(f64_from(i64_sub(as_i64(y), as_i64(x)).r))

sub_byte_char(x, y) == from_u32_or_null(as_u32(i64_sub(as_i64(y), as_i64(x))))

\* the f64 quotient n / d of two numbers given in halves: a division by zero
\* gives an infinity or NaN, a quotient that is no multiple of a half is none
\* of the numbers of the model
f64_div(n, d) ==
    IF d = 0
    THEN IF n = 0 THEN Tagged("nan", 0)
         ELSE IF n > 0 THEN Tagged("inf", 0) ELSE Tagged("neg_inf", 0)
    ELSE LET an == IF n >= 0 THEN n ELSE -n
             ad == IF d >= 0 THEN d ELSE -d
             sign == IF (n >= 0) = (d >= 0) THEN 1 ELSE -1
         IN  IF (2 * an) % ad = 0 THEN Num(sign * ((2 * an) \div ad))
             ELSE Tagged("inexact", 0)

\* mod div
div_num_num(x, y) == f64_div(y.v, x.v)

div_byte_byte(x, y) == f64_div(f64_from(y.v), f64_from(x.v))

div_byte_num(x, y) == f64_div(y.v, f64_from(x.v))

div_num_byte(x, y) == f64_div(f64_from(y.v), x.v)

\* f64::atan2, self.atan2(other): the angle of the point (other, self), in
\* quarters of pi when the point is on an axis or a diagonal (0 at the origin)
f64_atan2(self, other) ==
    LET as == IF self >= 0 THEN self ELSE -self
        ao == IF other >= 0 THEN other ELSE -other
    IN  IF self = 0 THEN Tagged("quarter_pi", IF other >= 0 THEN 0 ELSE 4)
        ELSE IF other = 0 THEN Tagged("quarter_pi", IF self > 0 THEN 2 ELSE -2)
        ELSE IF as = ao
             THEN Tagged("quarter_pi",
                         IF self > 0 THEN (IF other > 0 THEN 1 ELSE 3)
                         ELSE (IF other > 0 THEN -1 ELSE -3))
        ELSE Tagged("inexact", 0)

\* mod atan2
atan2_num_num(x, y) == f64_atan2(x.v, y.v)

RECURSIVE IntPow(_, _)
IntPow(base, n) == IF n = 0 THEN 1 ELSE base * IntPow(base, n - 1)

\* f64::powf, self.powf(n): exact for an integer self and a natural n
f64_powf(self, n) ==
    IF ~fract_nonzero(self) /\ ~fract_nonzero(n) /\ n >= 0
    THEN Num(f64_from(IntPow(self \div 2, n \div 2)))
    ELSE Tagged("inexact", 0)

\* mod pow
pow_num_num(x, y) == f64_powf(y.v, x.v)

\* f64::MANTISSA_DIGITS: an f64 holds 53 significant bits
f64_MANTISSA_DIGITS == 53

\* the f64 arithmetic of mod modulus, on wide numbers: a Num counts
\* w * 2^33 + v halves, v far short of 2^33 in size, so that numbers are
\* ordered by w first and by v second
f64_neg(x) == Scalar("Num", -x.w, -x.v)

f64_is_neg(x) == x.w < 0 \/ (x.w = 0 /\ x.v < 0)

f64_abs(x) == IF f64_is_neg(x) THEN f64_neg(x) ELSE x

f64_lt(x, y) == x.w < y.w \/ (x.w = y.w /\ x.v < y.v)

f64_exact_add(x, y) == Scalar("Num", x.w + y.w, x.v + y.v)

f64_exact_sub(x, y) == Scalar("Num", x.w - y.w, x.v - y.v)

\* the largest power of two that is at most j, for j >= 1
RECURSIVE FloorPow2(_)
FloorPow2(j) == IF j < 2 THEN 1 ELSE 2 * FloorPow2(j \div 2)

\* the distance, in halves, of neighbouring f64 at a number x >= 0: every
\* count of halves below 2^53 is an f64, and the distance doubles with every
\* doubling of the number from there on
f64_ulp(x) ==
    LET unit == Pow2(f64_MANTISSA_DIGITS - 33)
        j == IF x.v >= 0 THEN x.w \div unit ELSE (x.w - 1) \div unit
    IN  IF x.w = 0 \/ j = 0 THEN 1 ELSE 2 * FloorPow2(j)

\* the f64 nearest to the number x >= 0, a tie going to the even mantissa
f64_round_abs(x) ==
    LET s == f64_ulp(x)
        d == x.v % s
        lo == x.v - d
        hi == lo + s
    IN  IF d = 0 THEN x
        ELSE IF 2 * d < s THEN Scalar("Num", x.w, lo)
        ELSE IF 2 * d > s THEN Scalar("Num", x.w, hi)
        ELSE IF lo % (2 * s) = 0 THEN Scalar("Num", x.w, lo)
        ELSE Scalar("Num", x.w, hi)

f64_round(x) ==
    IF f64_is_neg(x) THEN f64_neg(f64_round_abs(f64_neg(x))) ELSE f64_round_abs(x)

\* x + y of two f64: the sum, rounded to an f64; NaN stays NaN
f64_add(x, y) ==
    IF x.tag # "fin" \/ y.tag # "fin" THEN Tagged("nan", 0)
    ELSE f64_round(f64_exact_add(x, y))

\* brings r, which differs from the remainder by a multiple of y, into 0 <= r < y
RECURSIVE rem_fix(_, _)
rem_fix(r, y) ==
    IF f64_is_neg(r) THEN rem_fix(f64_exact_add(r, y), y)
    ELSE IF ~f64_lt(r, y) THEN rem_fix(f64_exact_sub(r, y), y)
    ELSE r

\* 2^n modulo m
RECURSIVE Pow2Mod(_, _)
Pow2Mod(n, m) == IF n = 0 THEN 1 % m ELSE (2 * Pow2Mod(n - 1, m)) % m

\* the remainder of x >= 0 by y > 0
rem_abs(x, y) ==
    IF y.w = 0
    THEN Num((((x.w % y.v) * Pow2Mod(33, y.v)) + x.v) % y.v)
    ELSE LET q == x.w \div y.w
         IN  rem_fix(Scalar("Num", x.w - q * y.w, x.v - q * y.v), y)

\* x % y of two f64: the remainder of the division truncated toward zero, which
\* is exact and has the sign of x; NaN for y = 0
f64_rem(x, y) ==
    IF x.tag # "fin" \/ y.tag # "fin" \/ (y.w = 0 /\ y.v = 0) THEN Tagged("nan", 0)
    ELSE LET r == rem_abs(f64_abs(x), f64_abs(y))
         IN  IF f64_is_neg(x) THEN f64_neg(r) ELSE r

\* f64::from of a u8 scalar
f64_from_byte(x) == Num(f64_from(x.v))

\* mod modulus
\* a modulus that is the bare remainder b % a
modulus_num_num_rem(x, y) == f64_rem(y, x)

modulus_num_num(x, y) == f64_rem(f64_add(f64_rem(y, x), x), x)

modulus_byte_byte(x, y) == f64_rem(f64_from_byte(y), f64_from_byte(x))

modulus_byte_num(x, y) ==
    LET xf == f64_from_byte(x)
    IN  f64_rem(f64_add(f64_rem(y, xf), xf), xf)

modulus_num_byte(x, y) == f64_rem(f64_add(f64_rem(f64_from_byte(y), x), x), x)

(***************************************************************************)
(* The kernel machine: two scalars are given and one of the kernels that   *)
(* is defined for their kinds is called on them.                           *)
(***************************************************************************)
MaxKernelInt == 3

\* the numbers 2^53, 2^53 - 1, -2^53 and 1 - 2^53, at the end of the range in
\* which every integer is an f64
WideScalars ==
    LET w == Pow2(f64_MANTISSA_DIGITS - 32)
    IN  { Scalar("Num", w, 0), Scalar("Num", w, -2),
          Scalar("Num", -w, 0), Scalar("Num", -w, 2) }

\* the numbers -MaxKernelInt .. MaxKernelInt, 10, -100, 0.5 and 1.5, the
\* numbers 2^32 and -2^32, and the wide numbers
NumScalars ==
    { Num(f64_from(k)) : k \in (-MaxKernelInt..MaxKernelInt) \cup {10, -100} }
    \cup { Num(1), Num(3) }
    \cup { Scalar("Num", 1, 0), Scalar("Num", -1, 0) }
    \cup WideScalars

ByteScalars == { Scalar("Byte", 0, n) : n \in {0, 1, 2, 3, 255} }

\* NUL, 'A', the chars around the surrogate range, and char::MAX
CharScalars == { Char(n) : n \in {0, 65, SURROGATE_MIN - 1, SURROGATE_MAX + 1, CHAR_MAX} }

Scalars == NumScalars \cup ByteScalars \cup CharScalars

ApplyKernel(name, r) ==
    /\ op' = name
    /\ arr' = r
    /\ UNCHANGED <<prev, status, error, orig, a, b, env, c, calls, named>>

AddChar ==
    /\ op = "new"
    /\ \/ a.kind = "Num" /\ b.kind = "Char" /\ ApplyKernel("add.num_char", add_num_char(a, b))
       \/ a.kind = "Char" /\ b.kind = "Num" /\ ApplyKernel("add.char_num", add_char_num(a, b))
       \/ a.kind = "Byte" /\ b.kind = "Char" /\ ApplyKernel("add.byte_char", add_byte_char(a, b))
       \/ a.kind = "Char" /\ b.kind = "Byte" /\ ApplyKernel("add.char_byte", add_char_byte(a, b))

SubChar ==
    /\ op = "new"
    /\ \/ a.kind = "Num" /\ b.kind = "Char" /\ ApplyKernel("sub.num_char", sub_num_char(a, b))
       \/ a.kind = "Byte" /\ b.kind = "Char" /\ ApplyKernel("sub.byte_char", sub_byte_char(a, b))

Sub ==
    /\ op = "new"
    /\ a.w = 0
    /\ b.w = 0
    /\ \/ a.kind = "Num" /\ b.kind = "Num" /\ ApplyKernel("sub.num_num", sub_num_num(a, b))
       \/ a.kind = "Byte" /\ b.kind = "Byte" /\ ApplyKernel("sub.byte_byte", sub_byte_byte(a, b))
       \/ a.kind = "Byte" /\ b.kind = "Num" /\ ApplyKernel("sub.byte_num", sub_byte_num(a, b))
       \/ a.kind = "Num" /\ b.kind = "Byte" /\ ApplyKernel("sub.num_byte", sub_num_byte(a, b))
       \/ a.kind = "Char" /\ b.kind = "Char" /\ ApplyKernel("sub.char_char", sub_char_char(a, b))

Div ==
    /\ op = "new"
    /\ a.w = 0
    /\ b.w = 0
    /\ \/ a.kind = "Num" /\ b.kind = "Num" /\ ApplyKernel("div.num_num", div_num_num(a, b))
       \/ a.kind = "Byte" /\ b.kind = "Byte" /\ ApplyKernel("div.byte_byte", div_byte_byte(a, b))
       \/ a.kind = "Byte" /\ b.kind = "Num" /\ ApplyKernel("div.byte_num", div_byte_num(a, b))
       \/ a.kind = "Num" /\ b.kind = "Byte" /\ ApplyKernel("div.num_byte", div_num_byte(a, b))

Atan2 ==
    /\ op = "new"
    /\ a.kind = "Num" /\ b.kind = "Num"
    /\ a.w = 0 /\ b.w = 0
    /\ ApplyKernel("atan2.num_num", atan2_num_num(a, b))

Pow ==
    /\ op = "new"
    /\ a.kind = "Num" /\ b.kind = "Num"
    /\ a.w = 0 /\ b.w = 0
    /\ a.v <= f64_from(MaxKernelInt)
    /\ ApplyKernel("pow.num_num", pow_num_num(a, b))

Modulus ==
    /\ op = "new"
    /\ \/ a.kind = "Num" /\ b.kind = "Num"
          /\ ApplyKernel("modulus.num_num", modulus_num_num(a, b))
       \/ a.kind = "Byte" /\ b.kind = "Byte"
          /\ ApplyKernel("modulus.byte_byte", modulus_byte_byte(a, b))
       \/ a.kind = "Byte" /\ b.kind = "Num"
          /\ ApplyKernel("modulus.byte_num", modulus_byte_num(a, b))
       \/ a.kind = "Num" /\ b.kind = "Byte"
          /\ ApplyKernel("modulus.num_byte", modulus_num_byte(a, b))

InitKernels ==
    /\ a \in Scalars
    /\ b \in Scalars
    /\ arr = NoArray
    /\ prev = NoArray
    /\ orig = NoArray
    /\ env = NoEnv
    /\ op = "new"
    /\ status = "ok"
    /\ error = "none"
    /\ c = <<>>
    /\ calls = <<>>
    /\ named = <<>>

NextKernels ==
    \/ AddChar
    \/ SubChar
    \/ Sub
    \/ Div
    \/ Atan2
    \/ Pow
    \/ Modulus

SpecKernels == InitKernels /\ [][NextKernels]_vars

(***************************************************************************)
(* Functions: instructions, signatures and composition.  An Ordering is    *)
(* -1, 0 or 1 as for array_cmp.  A Value, a Primitive and a span are       *)
(* numbers, compared as numbers, and a DynamicFunction is its id.          *)
(***************************************************************************)
\* enum Instr
Push(val) == [variant |-> "Push", val |-> val]

BeginArray == [variant |-> "BeginArray"]

EndArray(constant, span) == [variant |-> "EndArray", constant |-> constant, span |-> span]

Prim(prim, span) == [variant |-> "Prim", prim |-> prim, span |-> span]

Call(index) == [variant |-> "Call", index |-> index]

Dynamic(id) == [variant |-> "Dynamic", id |-> id]

PushTemp(count, span, kind) ==
    [variant |-> "PushTemp", count |-> count, span |-> span, kind |-> kind]

PopTemp(count, span, kind) ==
    [variant |-> "PopTemp", count |-> count, span |-> span, kind |-> kind]

CopyTemp(offset, count, span, kind) ==
    [variant |-> "CopyTemp", offset |-> offset, count |-> count, span |-> span,
     kind |-> kind]

DropTemp(count, span, kind) ==
    [variant |-> "DropTemp", count |-> count, span |-> span, kind |-> kind]

\* #[repr(u8)] with Push = 0: the discriminants count up in the order of the
\* declaration
discriminant(x) ==
    CASE x.variant = "Push" -> 0
      [] x.variant = "BeginArray" -> 1
      [] x.variant = "EndArray" -> 2
      [] x.variant = "Prim" -> 3
      [] x.variant = "Call" -> 4
      [] x.variant = "Dynamic" -> 5
      [] x.variant = "PushTemp" -> 6
      [] x.variant = "PopTemp" -> 7
      [] x.variant = "CopyTemp" -> 8
      [] x.variant = "DropTemp" -> 9

\* impl PartialEq for Instr: a pair of Dynamic has no arm and falls to `_ => false`
Instr_eq(x, y) ==
    IF x.variant # y.variant THEN FALSE
    ELSE CASE x.variant = "Push" -> x.val = y.val
           [] x.variant = "BeginArray" -> TRUE
           [] x.variant = "EndArray" -> TRUE
           [] x.variant = "Prim" -> x.prim = y.prim /\ x.span = y.span
           [] x.variant = "Call" -> x.index = y.index
           [] x.variant = "PushTemp" -> x.count = y.count
           [] x.variant = "PopTemp" -> x.count = y.count
           [] x.variant = "CopyTemp" -> x.offset = y.offset /\ x.count = y.count
           [] x.variant = "DropTemp" -> x.count = y.count
           [] OTHER -> FALSE

\* impl Ord for Instr
Instr_cmp(x, y) ==
    IF x.variant = "Push" /\ y.variant = "Push" THEN array_cmp(x.val, y.val)
    ELSE IF Instr_eq(x, y) THEN 0
    ELSE array_cmp(discriminant(x), discriminant(y))

\* Vec<Instr> == Vec<Instr>
instrs_eq(s, t) == Len(s) = Len(t) /\ \A k \in 1..Len(s) : Instr_eq(s[k], t[k])

\* Vec<Instr>::cmp: the first unequal pair decides, then the lengths
RECURSIVE instrs_cmp_from(_, _, _)
instrs_cmp_from(s, t, k) ==
    IF k > Min(Len(s), Len(t)) THEN array_cmp(Len(s), Len(t))
    ELSE IF Instr_cmp(s[k], t[k]) # 0 THEN Instr_cmp(s[k], t[k])
    ELSE instrs_cmp_from(s, t, k + 1)

instrs_cmp(s, t) == instrs_cmp_from(s, t, 1)

\* enum FunctionId, of which the model has Constant, Main and Composed
Constant == [variant |-> "Constant", ids |-> <<>>]

Main == [variant |-> "Main", ids |-> <<>>]

Composed(ids) == [variant |-> "Composed", ids |-> ids]

FunctionId_discriminant(x) ==
    CASE x.variant = "Constant" -> 3
      [] x.variant = "Main" -> 4
      [] x.variant = "Composed" -> 5

\* #[derive(Ord)] for FunctionId: the variants in the order of the declaration,
\* two Composed by their lists
RECURSIVE FunctionId_cmp(_, _)
RECURSIVE ids_cmp_from(_, _, _)
ids_cmp_from(s, t, k) ==
    IF k > Min(Len(s), Len(t)) THEN array_cmp(Len(s), Len(t))
    ELSE IF FunctionId_cmp(s[k], t[k]) # 0 THEN FunctionId_cmp(s[k], t[k])
    ELSE ids_cmp_from(s, t, k + 1)

FunctionId_cmp(x, y) ==
    IF x.variant # y.variant
    THEN array_cmp(FunctionId_discriminant(x), FunctionId_discriminant(y))
    ELSE ids_cmp_from(x.ids, y.ids, 1)

FunctionId_compose(self, other) ==
    IF self.variant = "Composed" /\ other.variant = "Composed"
    THEN Composed(self.ids \o other.ids)
    ELSE IF self.variant = "Composed" THEN Composed(Append(self.ids, other))
    ELSE IF other.variant = "Composed" THEN Composed(<<self>> \o other.ids)
    ELSE Composed(<<self, other>>)

\* struct Signature
Signature_new(args, outputs) == [args |-> args, outputs |-> outputs]

saturating_sub(x, y) == IF x > y THEN x - y ELSE 0

is_compatible_with(self, other) ==
    self.args - self.outputs = other.args - other.outputs

Signature_compose(self, other) ==
    Signature_new(other.args + saturating_sub(self.args, other.outputs),
                  saturating_sub(other.outputs, other.args) + self.outputs)

\* struct Function
Function_new(id, instrs, signature) ==
    [id |-> id, instrs |-> instrs, signature |-> signature]

Function_eq(self, other) == self.id = other.id /\ instrs_eq(self.instrs, other.instrs)

Function_cmp(self, other) ==
    IF FunctionId_cmp(self.id, other.id) # 0 THEN FunctionId_cmp(self.id, other.id)
    ELSE instrs_cmp(self.instrs, other.instrs)

Function_compose(x, y) ==
    LET id == FunctionId_compose(x.id, y.id)
        sig == Signature_compose(x.signature, y.signature)
        instrs == y.instrs \o x.instrs
    IN  Function_new(id, instrs, sig)

(***************************************************************************)
(* The function machine: two functions are given; they are composed, or    *)
(* tested for equality, or compared.                                       *)
(***************************************************************************)
MaxInstrs == 1

MaxSigArgs == 2

\* instructions of every variant, two of a variant differing in one field
InstrSet ==
    { Push(0), Push(1), BeginArray, EndArray(FALSE, 0), EndArray(TRUE, 1),
      Prim(0, 0), Prim(1, 0), Prim(0, 1), Call(0), Call(1), Dynamic(0), Dynamic(1),
      PushTemp(1, 0, "Inline"), PushTemp(1, 1, "Under"), PushTemp(2, 0, "Inline"),
      PopTemp(1, 0, "Inline"), CopyTemp(0, 1, 0, "Inline"), CopyTemp(1, 1, 0, "Inline"),
      DropTemp(1, 0, "Inline") }

InstrSeqs == UNION { [1..n -> InstrSet] : n \in 0..MaxInstrs }

Signatures == { Signature_new(n, m) : n \in 0..MaxSigArgs, m \in 0..MaxSigArgs }

Functions ==
    { Function_new(id, instrs, sig) :
        id \in {Constant, Main}, instrs \in InstrSeqs, sig \in Signatures }

ApplyFunction(name, r) ==
    /\ op' = name
    /\ arr' = r
    /\ UNCHANGED <<prev, status, error, orig, a, b, env, c, calls, named>>

Compose == op = "new" /\ ApplyFunction("Function.compose", Function_compose(a, b))

FunctionEq == op = "new" /\ ApplyFunction("Function.eq", Function_eq(a, b))

FunctionCmp == op = "new" /\ ApplyFunction("Function.cmp", Function_cmp(a, b))

InitFunction ==
    /\ a \in Functions
    /\ b \in Functions
    /\ arr = NoArray
    /\ prev = NoArray
    /\ orig = NoArray
    /\ env = NoEnv
    /\ op = "new"
    /\ status = "ok"
    /\ error = "none"
    /\ c = <<>>
    /\ calls = <<>>
    /\ named = <<>>

NextFunction ==
    \/ Compose
    \/ FunctionEq
    \/ FunctionCmp

SpecFunction == InitFunction /\ [][NextFunction]_vars

(***************************************************************************)
(* Vocabulary of the properties: the data-length invariant and multi-index *)
(* access in row-major order.                                              *)
(***************************************************************************)
WellFormed(x) == Len(x.data) = Product(x.shape)

\* every multi-index (0-based components) of a shape
Indices(s) ==
    { I \in [1..Len(s) -> 0..(MaxOf(s) - 1)] : \A k \in 1..Len(s) : I[k] < s[k] }

At(x, I) == x.data[FlatIndex(x.shape, I) + 1]

(***************************************************************************)
(* C1. Array invariant: every array an operation of the monadic machine    *)
(* returns successfully has a data length equal to the product of its      *)
(* shape.                                                                  *)
(***************************************************************************)
C1_DataLenInvariant == status = "ok" => WellFormed(arr)

(***************************************************************************)
(* C2. first and last return an error for every rank-0 input and for every *)
(* input whose leading dimension is 0, whatever its rank; for every other  *)
(* input they return the first (last) row, the leading dimension dropped.  *)
(***************************************************************************)
C2_FirstLastContract ==
    (op \in {"first", "last"} /\ WellFormed(prev)) =>
        IF rank(prev) = 0 \/ prev.shape[1] = 0
        THEN status = "err"
        ELSE /\ status = "ok"
             /\ arr = row(prev, IF op = "first" THEN 0 ELSE prev.shape[1] - 1)

(***************************************************************************)
(* C9. transpose and inv_transpose are mutual inverses: for every array x  *)
(* of rank >= 2 with a nonzero leading dimension, inv_transpose applied to *)
(* transpose(x) gives back the shape and data of x; transpose rotates the  *)
(* shape left by one and moves the first axis to the last position:        *)
(* result[i1..in, i0] = x[i0, i1..in].                                     *)
(***************************************************************************)
C9_TransposeInverse ==
    /\ (/\ op = "transpose"
        /\ WellFormed(prev)
        /\ rank(prev) >= 2
        /\ prev.shape[1] # 0) =>
           /\ status = "ok"
           /\ arr.shape = Tail(prev.shape) \o <<prev.shape[1]>>
           /\ WellFormed(arr)
           /\ \A I \in Indices(prev.shape) :
                  At(arr, Tail(I) \o <<I[1]>>) = At(prev, I)
           /\ inv_transpose(arr) = Ok(prev)
    /\ (/\ op = "inv_transpose"
        /\ WellFormed(prev)
        /\ rank(prev) >= 2
        /\ prev.shape[1] # 0) =>
           /\ status = "ok"
           /\ transpose(arr) = Ok(prev)

\* a 2x3 (or longer, non-square) array whose transposition moved its data
C9_Witness ==
    /\ op = "transpose"
    /\ status = "ok"
    /\ WellFormed(prev)
    /\ rank(prev) >= 2
    /\ prev.shape[1] >= 2
    /\ prev.shape[2] >= 2
    /\ prev.shape[1] # prev.shape[2]
    /\ arr.data # prev.data
    /\ inv_transpose(arr) = Ok(prev)

(***************************************************************************)
(* C10. reverse places row i of its input at row (row_count - 1 - i) of    *)
(* its output for every i, leaves the shape unchanged, and is an           *)
(* involution: reversing the result gives back the input.                  *)
(***************************************************************************)
C10_ReverseInvolution ==
    (op = "reverse" /\ WellFormed(prev)) =>
        /\ status = "ok"
        /\ arr.shape = prev.shape
        /\ Len(arr.data) = Len(prev.data)
        /\ (rank(prev) >= 1 =>
              \A i \in 0..(prev.shape[1] - 1) :
                  row(arr, prev.shape[1] - 1 - i) = row(prev, i))
        /\ reverse(arr) = Ok(prev)

\* an odd and an even row count, rows of more than one element, really moved
C10_Witness ==
    /\ op = "reverse"
    /\ status = "ok"
    /\ WellFormed(prev)
    /\ rank(prev) = 2
    /\ prev.shape[1] = 3
    /\ prev.shape[2] = 2
    /\ row(prev, 0) # row(prev, 2)
    /\ row(prev, 1) # row(prev, 0)
    /\ arr # prev
    /\ row(arr, 0) = row(prev, 2)

(***************************************************************************)
(* C3. Round trip: for every array x of natural numbers of any shape       *)
(* (rank 0, empty and all-zero arrays included), bits(x) succeeds and      *)
(* inverse_bits(bits(x)) succeeds with the shape and the values of x.      *)
(***************************************************************************)
IsNatural(n) == ~fract_nonzero(n) /\ n >= 0

AllNaturals(v) == v.kind = "Num" /\ \A i \in 1..Len(v.data) : IsNatural(v.data[i])

C3_BitsRoundTrip ==
    AllNaturals(orig) =>
        /\ op = "bits" => status = "ok"
        /\ op = "round_trip" =>
              /\ status = "ok"
              /\ arr.shape = orig.shape
              /\ arr.data = orig.data

(***************************************************************************)
(* C4. bits returns an error whenever an input element is not a natural    *)
(* number; every input that contains a negative integer is rejected.       *)
(***************************************************************************)
C4_BitsRejectsNonNaturals ==
    (/\ op = "bits"
     /\ orig.kind = "Num"
     /\ \E i \in 1..Len(orig.data) : ~IsNatural(orig.data[i])) =>
        status = "err"

(***************************************************************************)
(* C5. inverse_bits returns an error whenever an input element is not      *)
(* exactly 0 or 1, for byte arrays and for numeric arrays passed through   *)
(* Value::inverse_bits (2, 256, any negative number).                      *)
(***************************************************************************)
IsBoolean(v, e) ==
    IF v.kind = "Num" THEN e \in {f64_from(0), f64_from(1)} ELSE e \in {0, 1}

C5_InverseBitsRejectsNonBooleans ==
    (/\ op = "inverse_bits"
     /\ \E i \in 1..Len(orig.data) : ~IsBoolean(orig, orig.data[i])) =>
        status = "err"

(***************************************************************************)
(* C6. Pervasion shape law: for every pair of arrays whose shapes agree on *)
(* their common prefix, bin_pervade with an infallible kernel succeeds,    *)
(* the result shape is the element-wise maximum of the two shapes (the     *)
(* longer one) and the data length is the product of that shape, also      *)
(* when dimensions are 0 or an operand has rank 0.                         *)
(***************************************************************************)
ElementwiseMax(s, t) ==
    [k \in 1..Max(Len(s), Len(t)) |->
        Max(IF k <= Len(s) THEN s[k] ELSE 0, IF k <= Len(t) THEN t[k] ELSE 0)]

IsPrefix(s, t) == Len(s) <= Len(t) /\ SubSeq(t, 1, Len(s)) = s

PrefixCompatible(s, t) == IsPrefix(s, t) \/ IsPrefix(t, s)

Infallible(f) == f \in {"add", "sub"}

C6_PervasionShapeLaw ==
    (/\ op = "bin_pervade"
     /\ PrefixCompatible(a.shape, b.shape)
     /\ Infallible(env.f)) =>
        /\ status = "ok"
        /\ arr.shape = ElementwiseMax(a.shape, b.shape)
        /\ arr.shape = (IF Len(a.shape) >= Len(b.shape) THEN a.shape ELSE b.shape)
        /\ Len(arr.data) = Product(arr.shape)

\* a list against a matrix: the result takes the matrix's shape
C6_Witness ==
    /\ op = "bin_pervade"
    /\ status = "ok"
    /\ Infallible(env.f)
    /\ a.shape = <<2, 2>>
    /\ b.shape = <<2>>
    /\ arr.shape = <<2, 2>>
    /\ Len(arr.data) = 4

(***************************************************************************)
(* C7. Leading-axis broadcasting: when one shape is a prefix of the other, *)
(* the element of bin_pervade(a, b) at every multi-index I of the result   *)
(* is kernel(a[I cut to rank(a)], b[I cut to rank(b)]), in row-major       *)
(* order; the scalar 10 against [1, 2, 3] with add gives shape [3] and     *)
(* data [11, 12, 13].                                                      *)
(***************************************************************************)
C7_LeadingAxisBroadcast ==
    (/\ op = "bin_pervade"
     /\ PrefixCompatible(a.shape, b.shape)
     /\ Infallible(env.f)) =>
        /\ status = "ok"
        /\ Len(arr.data) = Product(arr.shape)
        /\ \A I \in Indices(arr.shape) :
               At(arr, I) = call(env.f, At(a, SubSeq(I, 1, rank(a))),
                                        At(b, SubSeq(I, 1, rank(b)))).v

C7_Witness ==
    /\ op = "bin_pervade"
    /\ status = "ok"
    /\ env.f = "add"
    /\ a = Arr(<<>>, <<10>>)
    /\ b = Arr(<<3>>, <<1, 2, 3>>)
    /\ arr = Arr(<<3>>, <<11, 12, 13>>)

(***************************************************************************)
(* C8. bin_pervade_generic always ends with a success value or an error    *)
(* value, never an abort, for every pair of shapes and input buffers whose *)
(* lengths are the products of their shapes, shapes with zero-size         *)
(* dimensions included ([0] against [0, 2], [2] against [2, 0]).           *)
(***************************************************************************)
C8_GenericNeverAborts ==
    (op = "bin_pervade_generic" /\ WellFormed(a) /\ WellFormed(b)) =>
        status \in {"ok", "err"}

(***************************************************************************)
(* C11. For every array x of rank >= 1 with at least one element, rise(x)  *)
(* is a permutation p of the row indices with row p[k] <= row p[k+1] for   *)
(* all k in the lexicographic order of the rows (the first differing       *)
(* element decides), and fall(x) a permutation q with                      *)
(* row q[k] >= row q[k+1].                                                 *)
(***************************************************************************)
\* s <= t for two rows of one length
RowLe(s, t) ==
    \/ s = t
    \/ \E k \in 1..Len(s) : SubSeq(s, 1, k - 1) = SubSeq(t, 1, k - 1) /\ s[k] < t[k]

IsPermutation(p, n) ==
    /\ Len(p) = n
    /\ \A i \in 0..(n - 1) : \E k \in 1..n : p[k] = i

C11_RiseFallSorted ==
    (/\ op \in {"rise", "fall"}
     /\ WellFormed(prev)
     /\ rank(prev) >= 1
     /\ flat_len(prev) > 0) =>
        /\ status = "ok"
        /\ arr.shape = <<prev.shape[1]>>
        /\ IsPermutation(arr.data, prev.shape[1])
        /\ \A k \in 1..(Len(arr.data) - 1) :
               IF op = "rise"
               THEN RowLe(row_slice(prev, arr.data[k]), row_slice(prev, arr.data[k + 1]))
               ELSE RowLe(row_slice(prev, arr.data[k + 1]), row_slice(prev, arr.data[k]))

\* three rows of two elements whose order is decided by the second element
C11_Witness ==
    /\ op = "rise"
    /\ status = "ok"
    /\ prev = Arr(<<3, 2>>, <<1, 0, 0, 1, 0, 0>>)
    /\ arr = Arr(<<3>>, <<2, 1, 0>>)

(***************************************************************************)
(* C12. classify and deduplicate agree: for every array x of rank >= 1,    *)
(* classify(x) gives each row the 0-based first-seen rank of its content   *)
(* (the classes are dense, the first row has class 0, two rows have one    *)
(* class iff they are equal), row i of deduplicate(x) is the first row of  *)
(* x whose class is i, and deduplicate(x) has as many rows as classify(x)  *)
(* has distinct classes.                                                   *)
(***************************************************************************)
ClassesOf(cl) == { cl[k] : k \in 1..Len(cl) }

\* the first row index (0-based) whose class is k
FirstOfClass(cl, k) == (CHOOSE i \in 1..Len(cl) : cl[i] = k /\ \A j \in 1..(i - 1) : cl[j] # k) - 1

C12_ClassifyDeduplicateAgree ==
    (op = "classify" /\ WellFormed(prev) /\ rank(prev) >= 1) =>
        /\ status = "ok"
        /\ arr.shape = <<prev.shape[1]>>
        /\ Len(arr.data) = prev.shape[1]
        /\ (prev.shape[1] > 0 => arr.data[1] = 0)
        /\ ClassesOf(arr.data) = 0..(Cardinality(ClassesOf(arr.data)) - 1)
        /\ \A i, j \in 1..Len(arr.data) :
               /\ (arr.data[i] = arr.data[j]) <=> (row(prev, i - 1) = row(prev, j - 1))
               /\ (i < j /\ arr.data[i] # arr.data[j] /\ \A k \in 1..(j - 1) : arr.data[k] # arr.data[j])
                      => \E k \in 1..(j - 1) : arr.data[k] = arr.data[j] - 1
        /\ LET d == deduplicate(prev)
           IN  /\ d.status = "ok"
               /\ d.shape = <<Cardinality(ClassesOf(arr.data))>> \o Tail(prev.shape)
               /\ \A k \in ClassesOf(arr.data) :
                      row(d, k) = row(prev, FirstOfClass(arr.data, k))

\* the first and the third row are equal, the second is new
C12_Witness ==
    /\ op = "classify"
    /\ status = "ok"
    /\ prev = Arr(<<3, 2>>, <<0, 1, 0, 0, 0, 1>>)
    /\ arr = Arr(<<3>>, <<0, 1, 0>>)
    /\ deduplicate(prev) = Ok(Arr(<<2, 2>>, <<0, 1, 0, 0>>))

(***************************************************************************)
(* C13. deduplicate keeps exactly the first occurrence of each distinct    *)
(* row, in the original order, sets the leading dimension to the number of *)
(* rows kept and leaves the other dimensions unchanged ([1,2,1,3,2]        *)
(* becomes shape [3], data [1,2,3]); a rank-0 input is left unchanged.     *)
(***************************************************************************)
\* the indices (0-based) of the rows no earlier row is equal to
FirstOccurrences(x) ==
    { i \in 0..(x.shape[1] - 1) : \A j \in 0..(i - 1) : row(x, j) # row(x, i) }

\* the k-th smallest (k from 1) element of a set of naturals
KthOf(S, k) == CHOOSE i \in S : Cardinality({ j \in S : j < i }) = k - 1

C13_DeduplicateKeepsFirst ==
    (op = "deduplicate" /\ WellFormed(prev)) =>
        /\ status = "ok"
        /\ (rank(prev) = 0 => arr = prev)
        /\ (rank(prev) >= 1 =>
              LET kept == FirstOccurrences(prev)
              IN  /\ arr.shape = <<Cardinality(kept)>> \o Tail(prev.shape)
                  /\ WellFormed(arr)
                  /\ \A k \in 1..Cardinality(kept) :
                         row(arr, k - 1) = row(prev, KthOf(kept, k)))

C13_Witness ==
    /\ op = "deduplicate"
    /\ status = "ok"
    /\ prev = Arr(<<5>>, <<1, 2, 1, 3, 2>>)
    /\ arr = Arr(<<3>>, <<1, 2, 3>>)

(***************************************************************************)
(* C14. range of a shape s with all dimensions nonzero enumerates every    *)
(* multi-index of s exactly once in row-major order (the last axis runs    *)
(* fastest): for rank(s) > 1 the result has shape s followed by rank(s)    *)
(* and its k-th group of rank(s) values is the mixed-radix decomposition   *)
(* of k; for rank(s) = 1 it is the flat sequence 0..n-1 of shape [n].      *)
(* range([2,3]) has shape [2,3,2] and rows [0,0],[0,1],[0,2],[1,0],[1,1],  *)
(* [1,2].                                                                  *)
(***************************************************************************)
\* the shape a range input asks for
RequestedShape(v) == [i \in 1..Len(v.data) |-> v.data[i] \div 2]

\* digit d (1-based, the first the most significant) of k in the radices s
MixedRadixDigit(s, k, d) == (k \div Product(SubSeq(s, d + 1, Len(s)))) % s[d]

C14_RangeEnumeratesIndices ==
    (/\ op = "range"
     /\ as_naturals(orig).ok
     /\ Len(orig.data) >= 1
     /\ \A i \in 1..Len(orig.data) : orig.data[i] # 0) =>
        LET s == RequestedShape(orig)
            n == Len(s)
        IN  /\ status = "ok"
            /\ arr.shape = (IF n > 1 THEN s \o <<n>> ELSE s)
            /\ Len(arr.data) = n * Product(s)
            /\ \A k \in 0..(Product(s) - 1) : \A d \in 1..n :
                   arr.data[k * n + d] = f64_from(MixedRadixDigit(s, k, d))
            /\ \A I \in Indices(s) :
                   Cardinality({ k \in 0..(Product(s) - 1) :
                       \A d \in 1..n : arr.data[k * n + d] = f64_from(I[d]) }) = 1

C14_Witness ==
    /\ op = "range"
    /\ status = "ok"
    /\ orig = Val("Num", <<2>>, <<f64_from(2), f64_from(3)>>)
    /\ arr.shape = <<2, 3, 2>>
    /\ arr.data = <<f64_from(0), f64_from(0), f64_from(0), f64_from(1),
                    f64_from(0), f64_from(2), f64_from(1), f64_from(0),
                    f64_from(1), f64_from(1), f64_from(1), f64_from(2)>>

(***************************************************************************)
(* C15. bin_pervade never modifies the caller's operands: after any call,  *)
(* successful or failing, with or without fill-extension of either         *)
(* operand, both input arrays have the shape and data they had before the  *)
(* call; repairs are applied to private clones only.                       *)
(***************************************************************************)
C15_OperandsUnchanged ==
    op = "bin_pervade" => (a = orig.a /\ b = orig.b)

\* the first operand was extended by a row of fill for the call, and is as
\* it was after it
C15_Witness ==
    /\ op = "bin_pervade"
    /\ status = "ok"
    /\ env.fill_a.some
    /\ env.f = "add"
    /\ orig.a = Arr(<<1>>, <<10>>)
    /\ orig.b = Arr(<<2>>, <<1, 2>>)
    /\ arr = Arr(<<2>>, <<11, 2>>)
    /\ a = orig.a
    /\ b = orig.b

(***************************************************************************)
(* C16. First failure aborts: bin_pervade calls the kernel on the element  *)
(* pairs in the row-major order of the result; when a call fails, the call *)
(* of bin_pervade returns exactly that error, no later pair is passed to   *)
(* the kernel, and no result array is returned.                            *)
(***************************************************************************)
Fails(f, pair) == ~call(f, pair[1], pair[2]).ok

\* the element pairs of two prefix-compatible operands in the row-major
\* order of the result
RowMajorPairs(x, y) ==
    LET shape == IF Len(x.shape) >= Len(y.shape) THEN x.shape ELSE y.shape
    IN  [k \in 1..Product(shape) |->
            LET I == Unflatten(shape, k - 1)
            IN  <<At(x, SubSeq(I, 1, rank(x))), At(y, SubSeq(I, 1, rank(y)))>>]

C16_FirstFailureAborts ==
    op = "bin_pervade" =>
        /\ \A k \in 1..(Len(calls) - 1) : ~Fails(env.f, calls[k])
        /\ (calls # <<>> /\ Fails(env.f, calls[Len(calls)])) =>
              /\ status = "err"
              /\ error = call(env.f, calls[Len(calls)][1], calls[Len(calls)][2]).e
              /\ arr = NoArray
        /\ status = "ok" => \A k \in 1..Len(calls) : ~Fails(env.f, calls[k])
        /\ PrefixCompatible(a.shape, b.shape) =>
              LET pairs == RowMajorPairs(a, b)
                  failing == { k \in 1..Len(pairs) : Fails(env.f, pairs[k]) }
              IN  IF failing = {}
                  THEN calls = pairs /\ status = "ok"
                  ELSE LET k0 == CHOOSE k \in failing : \A j \in failing : k <= j
                       IN  /\ calls = SubSeq(pairs, 1, k0)
                           /\ status = "err"
                           /\ error = call(env.f, pairs[k0][1], pairs[k0][2]).e
                           /\ arr = NoArray

\* the second of four pairs fails, and a later pair would fail with another error
C16_Witness ==
    /\ op = "bin_pervade"
    /\ env.f = "checked"
    /\ a = Arr(<<4>>, <<10, 20, 30, 40>>)
    /\ b = Arr(<<4>>, <<1, 2, 3, 4>>)
    /\ calls = << <<10, 1>>, <<20, 2>> >>
    /\ status = "err"
    /\ error = "kernel"
    /\ arr = NoArray

IntegerOf(x) == [w |-> x.w, r |-> IF x.kind = "Num" THEN x.v \div 2 ELSE x.v]

IsInteger(x) == x.kind # "Num" \/ ~fract_nonzero(x.v)

IsScalarValue(i) ==
    /\ i.w = 0
    /\ 0 <= i.r
    /\ i.r <= CHAR_MAX
    /\ ~(SURROGATE_MIN <= i.r /\ i.r <= SURROGATE_MAX)

\* the exact result of a character kernel: char + delta, or char - delta
ExactCharResult ==
    IF op \in {"add.num_char", "add.byte_char"}
    THEN [w |-> IntegerOf(a).w, r |-> IntegerOf(b).r + IntegerOf(a).r]
    ELSE IF op \in {"add.char_num", "add.char_byte"}
    THEN [w |-> IntegerOf(b).w, r |-> IntegerOf(a).r + IntegerOf(b).r]
    ELSE [w |-> -IntegerOf(a).w, r |-> IntegerOf(b).r - IntegerOf(a).r]

C18_CharArithmeticSaturates ==
    (/\ op \in {"add.num_char", "add.char_num", "add.byte_char", "add.char_byte",
                "sub.num_char", "sub.byte_char"}
     /\ IsInteger(a)
     /\ IsInteger(b)) =>
        IF IsScalarValue(ExactCharResult)
        THEN arr = Char(ExactCharResult.r)
        ELSE arr = Char(0)

(***************************************************************************)
(* C19. Reversed-operand convention for subtraction and division: for      *)
(* num_num, byte_byte, byte_num, num_byte (and char_char for sub),         *)
(* sub.X(a, b) is b - a and div.X(a, b) is b / a, exact where the quotient *)
(* is integral; sub.num_num(3, 10) = 7.                                    *)
(***************************************************************************)
\* twice the number a scalar holds
HalvesOf(x) == IF x.kind = "Num" THEN x.v ELSE 2 * x.v

C19_ReversedOperands ==
    /\ op \in {"sub.num_num", "sub.byte_byte", "sub.byte_num", "sub.num_byte",
               "sub.char_char"} =>
          /\ arr.kind = "Num"
          /\ arr.tag = "fin"
          /\ arr.w = 0
          /\ arr.v + HalvesOf(a) = HalvesOf(b)
    /\ op \in {"div.num_num", "div.byte_byte", "div.byte_num", "div.num_byte"} =>
          /\ arr.kind = "Num"
          /\ IF HalvesOf(a) = 0
             THEN arr.tag = (IF HalvesOf(b) = 0 THEN "nan"
                             ELSE IF HalvesOf(b) > 0 THEN "inf" ELSE "neg_inf")
             ELSE \* the quotient q with q * a = b, when it is a number of the model
                  /\ arr.tag \in {"fin", "inexact"}
                  /\ (arr.tag = "fin" => arr.v * HalvesOf(a) = 2 * HalvesOf(b))
                  /\ ((2 * HalvesOf(b)) % (IF HalvesOf(a) > 0 THEN HalvesOf(a) ELSE -HalvesOf(a)) = 0
                         => arr.tag = "fin")

C19_Witness ==
    /\ op = "sub.num_num"
    /\ a = Num(f64_from(3))
    /\ b = Num(f64_from(10))
    /\ arr = Num(f64_from(7))

(***************************************************************************)
(* C20. Every binary numeric kernel, atan2 included, applies its second    *)
(* operand as the receiver and its first as the modifier:                  *)
(* atan2.num_num(a, b) is b.atan2(a), in the operand order of sub, div,    *)
(* pow and log.                                                            *)
(***************************************************************************)
C20_Atan2OperandOrder ==
    /\ op = "pow.num_num" => arr = f64_powf(b.v, a.v)
    /\ op = "sub.num_num" => arr = Num(b.v - a.v)
    /\ op = "div.num_num" => arr = f64_div(b.v, a.v)
    /\ op = "atan2.num_num" => arr = f64_atan2(b.v, a.v)

(***************************************************************************)
(* C21. modulus is the mathematical modulus with the sign of the divisor:  *)
(* for all integers a # 0 and b, every modulus kernel returns the integer  *)
(* that is congruent to b modulo a and is 0 or of the sign of a and        *)
(* smaller than a in size, and the byte kernels return what num_num        *)
(* returns on the same integers.                                           *)
(***************************************************************************)
ModulusOps ==
    {"modulus.num_num", "modulus.byte_byte", "modulus.byte_num", "modulus.num_byte"}

\* the operand of a modulus kernel as a number
NumOf(x) == IF x.kind = "Byte" THEN f64_from_byte(x) ELSE x

IsWideInteger(x) == x.tag = "fin" /\ x.v % 2 = 0

IsZero(x) == x.w = 0 /\ x.v = 0

\* r is the mathematical modulus of y by x
IsMathModulus(r, x, y) ==
    /\ IsWideInteger(r)
    /\ IsZero(r) \/ (f64_is_neg(r) = f64_is_neg(x))
    /\ f64_lt(f64_abs(r), f64_abs(x))
    /\ IsZero(rem_abs(f64_abs(f64_exact_sub(r, y)), f64_abs(x)))

ModulusContract ==
    /\ IsMathModulus(arr, NumOf(a), NumOf(b))
    /\ arr = modulus_num_num(NumOf(a), NumOf(b))

C21_Modulus ==
    (/\ op \in ModulusOps
     /\ IsWideInteger(NumOf(a)) /\ IsWideInteger(NumOf(b))
     /\ ~IsZero(NumOf(a))) => ModulusContract

\* C21, amended: the same for all integers a # 0 and b with |a| + |b| < 2^53,
\* where the sum (b % a) + a is an f64 and no rounding takes place
C21_ModulusExact ==
    (/\ op \in ModulusOps
     /\ IsWideInteger(NumOf(a)) /\ IsWideInteger(NumOf(b))
     /\ ~IsZero(NumOf(a))
     /\ f64_lt(f64_exact_add(f64_abs(NumOf(a)), f64_abs(NumOf(b))),
               Scalar("Num", Pow2(f64_MANTISSA_DIGITS - 32), 0))) => ModulusContract

\* -100 modulo 3 is 2
C21_Witness ==
    /\ op = "modulus.num_num"
    /\ a = Num(f64_from(3))
    /\ b = Num(f64_from(-100))
    /\ arr = Num(f64_from(2))

(***************************************************************************)
(* C22. bits layout: for every non-empty array x of naturals, bits(x) has  *)
(* the shape of x followed by max_bits, the bit length of the largest      *)
(* element (0 when it is 0), and the bit stored at trailing index i of     *)
(* element n is (n >> i) & 1; bits([5]) has shape [1,3] and data [1,0,1].  *)
(* For an empty x the result has the shape of x followed by 0.             *)
(***************************************************************************)
\* the natural an element of the value v holds
NaturalOf(v, e) == IF v.kind = "Num" THEN e \div 2 ELSE e

HoldsNaturals(v) ==
    v.kind = "Byte" \/ (v.kind = "Num" /\ \A i \in 1..Len(v.data) : IsNatural(v.data[i]))

\* the number of binary digits of n, 0 for n = 0
BitLength(n) == CHOOSE k \in 0..31 : n < Pow2(k) /\ (k = 0 \/ n >= Pow2(k - 1))

LargestOf(v) == MaxOf([i \in 1..Len(v.data) |-> NaturalOf(v, v.data[i])])

RunSignature(sig, h) ==
    IF h < sig.args THEN -1 ELSE h - sig.args + sig.outputs

\* b runs first and a second
RunComposed(h) == RunSignature(a.signature, RunSignature(b.signature, h))

\* the least height that the composition runs on, and the values it leaves of it
StackEffect ==
    LET need == CHOOSE h \in 0..(2 * MaxSigArgs + 2) :
                    /\ RunComposed(h) >= 0
                    /\ \A k \in 0..(h - 1) : RunComposed(k) < 0
    IN  Signature_new(need, RunComposed(need))

C23_ComposeSignature ==
    op = "Function.compose" =>
        /\ arr.instrs = b.instrs \o a.instrs
        /\ arr.signature.args =
               b.signature.args + Max(0, a.signature.args - b.signature.outputs)
        /\ arr.signature.outputs =
               a.signature.outputs + Max(0, b.signature.outputs - a.signature.args)
        /\ arr.signature = StackEffect
        /\ is_compatible_with(arr.signature,
               Signature_new(a.signature.args + b.signature.args,
                             a.signature.outputs + b.signature.outputs))

(***************************************************************************)
(* C24. Instr ordering is consistent with Instr equality: every            *)
(* instruction is equal to itself, Dynamic instructions included, and      *)
(* x.cmp(y) is Equal if and only if x == y; Function::cmp is Equal only    *)
(* for equal functions.                                                    *)
(***************************************************************************)
\* the instructions of the two functions
InstrsInPlay ==
    { a.instrs[k] : k \in 1..Len(a.instrs) } \cup { b.instrs[k] : k \in 1..Len(b.instrs) }

C24_InstrOrderConsistent ==
    op \in {"Function.eq", "Function.cmp"} =>
        /\ \A x \in InstrsInPlay : Instr_eq(x, x)
        /\ \A x \in InstrsInPlay : \A y \in InstrsInPlay :
              (Instr_cmp(x, y) = 0) <=> Instr_eq(x, y)
        /\ (op = "Function.cmp" /\ arr = 0) => (a = b /\ Function_eq(a, b))

(***************************************************************************)
(* C25. For every array x of rank >= 1, arrays whose rows are empty        *)
(* included (shape [3,0]), rise(x) and fall(x) each contain every row      *)
(* index 0 .. row_count(x) - 1 exactly once: their length is row_count(x), *)
(* which is the length of classify(x).                                     *)
(***************************************************************************)
C25_RiseFallCoverRows ==
    (/\ op \in {"rise", "fall"}
     /\ WellFormed(prev)
     /\ rank(prev) >= 1) =>
        /\ status = "ok"
        /\ IsPermutation(arr.data, row_count(prev))
        /\ Len(arr.data) = row_count(prev)
        /\ classify(prev).status = "ok"
        /\ Len(arr.data) = Len(classify(prev).data)

(***************************************************************************)
(* C26. The two broadcasting engines agree: for every pair of arrays with  *)
(* all dimensions nonzero where one shape is a prefix of the other, and    *)
(* every infallible kernel, bin_pervade and bin_pervade_generic return the *)
(* same shape and the same data in the same order, and bin_pervade_generic *)
(* has written every slot of its output buffer exactly once.               *)
(***************************************************************************)
NonEmpty(x) == \A k \in 1..Len(x.shape) : x.shape[k] # 0

\* what the other engine returns on the operands the caller held
ByBinPervade == bin_pervade(orig.a, orig.b, env)

ByBinPervadeGeneric ==
    bin_pervade_generic(orig.a.shape, orig.a.data, orig.b.shape, orig.b.data, env.f)

C26_EnginesAgree ==
    (/\ op \in {"bin_pervade", "bin_pervade_generic"}
     /\ NonEmpty(orig.a) /\ NonEmpty(orig.b)
     /\ PrefixCompatible(orig.a.shape, orig.b.shape)
     /\ Infallible(env.f)) =>
        /\ status = "ok"
        /\ op = "bin_pervade" =>
              /\ ByBinPervadeGeneric.status = "ok"
              /\ arr = Arr(ByBinPervadeGeneric.shape, ByBinPervadeGeneric.data)
        /\ op = "bin_pervade_generic" =>
              /\ ByBinPervade.status = "ok"
              /\ arr = Arr(ByBinPervade.shape, ByBinPervade.data)
              /\ Len(c) = Product(arr.shape)
              /\ \A k \in 1..Len(c) : c[k].w = 1

\* a matrix against a list: four slots, each written once
C26_Witness ==
    /\ op = "bin_pervade_generic"
    /\ status = "ok"
    /\ env.f = "sub"
    /\ orig.a = OperandA(<<2, 2>>)
    /\ orig.b = OperandB(<<2>>)
    /\ arr = Arr(<<2, 2>>, <<-9, -19, -28, -38>>)
    /\ arr = Arr(ByBinPervade.shape, ByBinPervade.data)
    /\ Len(c) = 4
    /\ \A k \in 1..Len(c) : c[k].w = 1

(***************************************************************************)
(* C27. When both operands' element types have a fill value and the two    *)
(* arrays have equal rank, the two repair passes of bin_pervade always     *)
(* reconcile the shapes: the call never returns a shape-mismatch error,    *)
(* and the result shape is the element-wise maximum of the two original    *)
(* shapes.  (With unequal ranks a shape-mismatch error is still possible.) *)
(***************************************************************************)
BothFills == env.fill_a.some /\ env.fill_b.some

C27_FillsReconcile ==
    (/\ op = "bin_pervade"
     /\ BothFills
     /\ rank(orig.a) = rank(orig.b)) =>
        /\ status \in {"ok", "err"}
        /\ error # "shape_mismatch_fill"
        /\ Infallible(env.f) =>
              /\ status = "ok"
              /\ arr.shape = ElementwiseMax(orig.a.shape, orig.b.shape)
              /\ Len(arr.data) = Product(arr.shape)

\* [1,2] against [2,1]: the first pass gives [2,2] against [2,1], the second
\* fills the other operand to [2,2]
C27_Witness ==
    /\ op = "bin_pervade"
    /\ BothFills
    /\ env.f = "add"
    /\ orig.a.shape = <<1, 2>>
    /\ orig.b.shape = <<2, 1>>
    /\ status = "ok"
    /\ arr.shape = <<2, 2>>

\* unequal ranks: [1,1] against [1,2,0] is a shape mismatch with both fills
C27_UnequalRanksMismatch ==
    /\ op = "bin_pervade"
    /\ BothFills
    /\ orig.a.shape = <<1, 1>>
    /\ orig.b.shape = <<1, 2, 0>>
    /\ status = "err"
    /\ error = "shape_mismatch_fill"

====
